---- MODULE Spec2Model ----
(***************************************************************************)
(* RepoMind (legacy-python-app): the retry wrapper, the PR review          *)
(* pipeline, the vector index / index metadata / metrics stores and the    *)
(* semantic answer cache of the Q&A tab, as state machines.                *)
(*                                                                         *)
(* Each subsystem has its own specification over the shared variables:     *)
(*   SpecRetry    utils/retry.py              with_retry                   *)
(*   SpecReview   graphs/pr_review_graph.py   the review graph             *)
(*   SpecNodes    graphs/pr_review_graph.py   the graph given any state    *)
(*   SpecRun      app.py, graphs/, metrics/   the Run AI Review button     *)
(*   SpecMetrics  metrics/store.py            the metrics log              *)
(*   SpecStore    indexing/, metrics/         the store functions          *)
(*   SpecQA       app.py                      Fetch & Index, Code Q&A      *)
(*   SpecCalls    auth/, llm/, graphs/        the external calls           *)
(*   SpecDiff     pr/diff_ingestion.py        the diff chunks of a PR      *)
(*   SpecChunk    ingestion/parser.py         chunk_file                   *)
(***************************************************************************)
EXTENDS Integers, Sequences, FiniteSets, TLC

VARIABLES
    \* ---- utils/retry.py: one call through with_retry(...)(fn) ----
    rt_pc,        \* "idle" | "loop" | "returned" | "raised"
    rt_max,       \* max_retries
    rt_jitter,    \* jitter (in ticks)
    rt_base,      \* base_delay (in ticks)
    rt_attempt,   \* the for loop's attempt
    rt_delay,     \* delay (in ticks)
    rt_calls,     \* number of times fn was called
    rt_hist,      \* the errors fn raised, in order
    rt_sleeps,    \* the time.sleep arguments, in order
    rt_result,    \* what the wrapper returned
    rt_raised,    \* what the wrapper raised
    \* ---- graphs/pr_review_graph.py: one run of the review graph ----
    rv_pc,        \* "idle" | the node to run next | "END" | "raised"
    rv_pr,        \* state["pr"].number
    rv_diffs,     \* state["diff_chunks"]: the file path of each DiffChunk
    rv_ctx,       \* state["context_snippets"]
    rv_raw,       \* state["raw_model_output"]
    rv_summary,   \* state["summary_text"]
    rv_comments,  \* state["comments"]
    rv_error,     \* state["error"]
    rv_exc,       \* the exception that left graph.invoke, "none" if none
    rv_given,     \* history: state["error"] as given to graph.invoke
    rv_trace,     \* history: the nodes that ran in this invoke, in order
    rv_requests,  \* history: the llm.invoke calls made in this invoke
    rv_queries,   \* history: the retrieve_chunks calls made in this invoke
    \* ---- the data directory: indexes, index metadata, metrics ----
    fs_dirs,      \* the directories INDEXES_DIR/<safe id> that exist
    fs_coll,      \* the documents of the Chroma collection in each of them
    fs_meta,      \* INDEXES_DIR/<safe id>/meta.json: <<>> or <<its content>>
    fs_mdirs,     \* the directories DATA_DIR/metrics/<safe id> that exist
    fs_logs,      \* DATA_DIR/metrics/<safe id>/reviews.jsonl: its lines
    clock,        \* datetime.now(timezone.utc), in ticks
    uuids,        \* how many uuid4 values were drawn
    h_builds,     \* history: per index directory, the builds that added documents
    \* ---- app.py: the Streamlit session of the Code Q&A tab ----
    qa_cache,     \* st.session_state.qa_semantic_cache
    qa_answer,    \* st.session_state.qa_answer (<<>> for None)
    qa_sources,   \* st.session_state.qa_sources
    qa_last,      \* history: the Ask click just handled (NoAsk after another click)
    h_gen,        \* history: for each cache entry, h_builds of its index at insert
    h_clicks,     \* history: the button clicks handled in the session
    \* ---- one external call: GitHub REST or the chat model ----
    xc_pc,        \* "idle" | "calling" | "returned" | "raised"
    xc_op,        \* the function that makes the call
    xc_attempt,   \* the wrapper's attempt, when the call has a wrapper
    xc_delay,     \* the wrapper's delay (in ticks)
    xc_sleeps,    \* the wrapper's time.sleep arguments, in order
    xc_page,      \* get_pull_request_files: the pages that came back non-empty
    xc_hist,      \* the errors the request raised, in order
    xc_raised,    \* the error that left the function
    \* ---- pr/diff_ingestion.py: one build_diff_chunks_from_github_files ----
    df_files,     \* files_json: the file payloads given
    df_chunks,    \* the DiffChunk list returned
    \* ---- ingestion/parser.py: one call of chunk_file ----
    ck_pc,        \* "idle" | "loop" | "returned"
    ck_lines,     \* lines = text.splitlines()
    ck_max,       \* max_lines_per_chunk
    ck_overlap,   \* overlap_lines
    ck_start,     \* start
    ck_chunks,    \* chunks
    ck_iter       \* how many times the while body ran

retryVars == <<rt_pc, rt_max, rt_jitter, rt_base, rt_attempt, rt_delay, rt_calls,
               rt_hist, rt_sleeps, rt_result, rt_raised>>

reviewVars == <<rv_pc, rv_pr, rv_diffs, rv_ctx, rv_raw, rv_summary, rv_comments,
                rv_error, rv_exc, rv_given, rv_trace, rv_requests, rv_queries>>

storeVars == <<fs_dirs, fs_coll, fs_meta, fs_mdirs, fs_logs, clock, uuids, h_builds>>

qaVars == <<qa_cache, qa_answer, qa_sources, qa_last, h_gen, h_clicks>>

callVars == <<xc_pc, xc_op, xc_attempt, xc_delay, xc_sleeps, xc_page, xc_hist, xc_raised>>

diffVars == <<df_files, df_chunks>>

chunkVars == <<ck_pc, ck_lines, ck_max, ck_overlap, ck_start, ck_chunks, ck_iter>>

vars == <<retryVars, reviewVars, storeVars, qaVars, callVars, diffVars, chunkVars>>

\* What the steps of one subsystem leave alone.
OutsideRetry == UNCHANGED <<reviewVars, storeVars, qaVars, callVars, diffVars, chunkVars>>
OutsideReview == UNCHANGED <<retryVars, storeVars, qaVars, callVars, diffVars, chunkVars>>
OutsideStore == UNCHANGED <<retryVars, reviewVars, qaVars, callVars, diffVars, chunkVars>>
OutsideApp == UNCHANGED <<retryVars, reviewVars, callVars, diffVars, chunkVars>>
OutsideCalls == UNCHANGED <<retryVars, reviewVars, storeVars, qaVars, diffVars, chunkVars>>
OutsideDiff == UNCHANGED <<retryVars, reviewVars, storeVars, qaVars, callVars, chunkVars>>
OutsideChunk == UNCHANGED <<retryVars, reviewVars, storeVars, qaVars, callVars, diffVars>>

(***************************************************************************)
(* utils/retry.py                                                          *)
(***************************************************************************)

\* Largest max_retries the model passes to with_retry.
MaxRetriesBound == 3

\* max_retries values tried (the default is 3).
MaxRetriesChoices == (-1) .. MaxRetriesBound

\* Time is counted in ticks of a quarter second: base_delay 1.0 is 4 ticks.
BaseDelays == {1, 4}

\* jitter in ticks: 0, the default 0.5 s = 2 ticks, and 0.75 s = 3 ticks.
Jitters == {0, 2, 3}

\* random.random() * jitter lies in [0, jitter): the ticks it can take.
JitterDraws(j) == IF j = 0 THEN {0} ELSE 0 .. (j - 1)

\* e.response is None: the error carries no status.
NoResponse == 0

\* The statuses the wrapper retries (retry.py line 42).
RetriableStatuses == {429, 500, 502, 503, 504}

\* The exception classes fn raises in the model, each with its base classes:
\* openai.RateLimitError and openai.AuthenticationError derive from
\* openai.APIStatusError, which derives from openai.APIError;
\* requests.HTTPError and ValueError derive from neither.
Bases(cls) ==
    CASE cls = "RateLimitError"      -> {"RateLimitError", "APIStatusError", "APIError"}
      [] cls = "AuthenticationError" -> {"AuthenticationError", "APIStatusError", "APIError"}
      [] cls = "HTTPError"           -> {"HTTPError"}
      [] OTHER                       -> {cls}

\* The default retry_on tuple.
RetryOn == {"RateLimitError", "APIError", "HTTPError"}

\* The errors fn can raise: [cls, status]; status is the HTTP status the
\* error carries (e.response.status_code, or the openai error's status_code).
\* The error object raised by the k-th call of fn is Raised(e, k).
Errors ==
    {[cls |-> "RateLimitError", status |-> 429],
     [cls |-> "AuthenticationError", status |-> 401],
     [cls |-> "HTTPError", status |-> 503],
     [cls |-> "HTTPError", status |-> 429],
     [cls |-> "HTTPError", status |-> 404],
     [cls |-> "HTTPError", status |-> NoResponse],
     [cls |-> "ValueError", status |-> NoResponse]}

Raised(e, k) == [cls |-> e.cls, status |-> e.status, call |-> k]

NoError == [cls |-> "none", status |-> NoResponse, call |-> 0]

\* except retry_on as e
CaughtByRetryOn(e) == Bases(e.cls) \cap RetryOn # {}

\* lines 40-43: an HTTPError whose status is not in the list is re-raised.
NonRetriableHTTP(e) ==
    /\ "HTTPError" \in Bases(e.cls)
    /\ e.status \notin RetriableStatuses

IsLastAttemptOffByOne(attempt, maxRetries) == attempt = maxRetries

\* line 44: if attempt == max_retries - 1
IsLastAttempt(attempt, maxRetries) == attempt = maxRetries - 1

\* line 47: sleep_for = delay + random.random() * jitter
SleepFor(delay, r) == delay + r

NextDelayUnchanged(delay) == delay

\* line 49: delay *= 2
NextDelay(delay) == delay * 2

\* for attempt in range(max_retries): is there a next iteration
InRange(attempt, maxRetries) == attempt >= 0 /\ attempt < maxRetries

RetryInit ==
    /\ rt_pc = "idle"
    /\ rt_max = 0
    /\ rt_jitter = 0
    /\ rt_base = 0
    /\ rt_attempt = 0
    /\ rt_delay = 0
    /\ rt_calls = 0
    /\ rt_hist = <<>>
    /\ rt_sleeps = <<>>
    /\ rt_result = "unset"
    /\ rt_raised = NoError

\* wrapper(*args): delay = base_delay, then the for loop is entered; with
\* max_retries <= 0 the range is empty and the wrapper falls off its end.
RetryCall(n, b, j) ==
    /\ rt_pc = "idle"
    /\ rt_max' = n
    /\ rt_jitter' = j
    /\ rt_base' = b
    /\ rt_delay' = b
    /\ rt_attempt' = 0
    /\ IF InRange(0, n)
          THEN rt_pc' = "loop" /\ rt_result' = rt_result
          ELSE rt_pc' = "returned" /\ rt_result' = "None"
    /\ UNCHANGED <<rt_calls, rt_hist, rt_sleeps, rt_raised>>
    /\ OutsideRetry

\* return fn(*args, **kwargs), fn returning its value
RetryAttemptReturns ==
    /\ rt_pc = "loop"
    /\ rt_calls' = rt_calls + 1
    /\ rt_pc' = "returned"
    /\ rt_result' = "value"
    /\ UNCHANGED <<rt_max, rt_jitter, rt_base, rt_attempt, rt_delay, rt_hist, rt_sleeps, rt_raised>>
    /\ OutsideRetry

\* fn raises e and the wrapper lets it out: e is not caught by retry_on, or
\* it is a non-retriable HTTPError, or this was the last attempt.
RetryAttemptPropagates(e) ==
    /\ rt_pc = "loop"
    /\ \/ ~CaughtByRetryOn(e)
       \/ NonRetriableHTTP(e)
       \/ IsLastAttempt(rt_attempt, rt_max)
    /\ rt_calls' = rt_calls + 1
    /\ rt_hist' = Append(rt_hist, Raised(e, rt_calls + 1))
    /\ rt_pc' = "raised"
    /\ rt_raised' = Raised(e, rt_calls + 1)
    /\ UNCHANGED <<rt_max, rt_jitter, rt_base, rt_attempt, rt_delay, rt_sleeps, rt_result>>
    /\ OutsideRetry

\* fn raises e, the wrapper sleeps delay + random.random() * jitter, doubles
\* delay and goes to the next iteration of the for loop (or off its end).
RetryAttemptBacksOff(e, r) ==
    /\ rt_pc = "loop"
    /\ CaughtByRetryOn(e)
    /\ ~NonRetriableHTTP(e)
    /\ ~IsLastAttempt(rt_attempt, rt_max)
    /\ r \in JitterDraws(rt_jitter)
    /\ rt_calls' = rt_calls + 1
    /\ rt_hist' = Append(rt_hist, Raised(e, rt_calls + 1))
    /\ rt_sleeps' = Append(rt_sleeps, SleepFor(rt_delay, r))
    /\ rt_delay' = NextDelay(rt_delay)
    /\ rt_attempt' = rt_attempt + 1
    /\ IF InRange(rt_attempt + 1, rt_max)
          THEN rt_pc' = "loop" /\ rt_result' = rt_result
          ELSE rt_pc' = "returned" /\ rt_result' = "None"
    /\ UNCHANGED <<rt_max, rt_jitter, rt_base, rt_raised>>
    /\ OutsideRetry

RetryNext ==
    \/ \E n \in MaxRetriesChoices, b \in BaseDelays, j \in Jitters : RetryCall(n, b, j)
    \/ RetryAttemptReturns
    \/ \E e \in Errors : RetryAttemptPropagates(e)
    \/ \E e \in Errors : \E r \in JitterDraws(rt_jitter) : RetryAttemptBacksOff(e, r)

(***************************************************************************)
(* graphs/pr_review_graph.py: JSON values and the raw model output         *)
(***************************************************************************)

\* What json.loads returns: None, a number, a str, a bool, a list, a dict.
JNull == [t |-> "null"]
JNum(n) == [t |-> "num", n |-> n]
JStr(s) == [t |-> "str", s |-> s]
JBool(b) == [t |-> "bool", b |-> b]
JList(items) == [t |-> "list", items |-> items]
JObj(fields) == [t |-> "obj", f |-> fields]
EmptyFields == [k \in {} |-> JNull]

\* The text the model returned, by its shape: an optional prose prefix and
\* suffix (words, no braces) around a body that is
\*   "none"    nothing (the text is the prose alone, or the empty string),
\*   "json"    the text of the JSON value val,
\*   "braces"  text with a first "{" before a last "}" that is no JSON,
\*   "open"    text with a "{" and no "}",
\*   "close"   text with a "}" and no "{".
RawText(lead, body, trail) == [lead |-> lead, body |-> body, trail |-> trail]
BodyNone == [kind |-> "none"]
BodyJson(v) == [kind |-> "json", val |-> v]
BodyBraces == [kind |-> "braces"]
BodyOpen == [kind |-> "open"]
BodyClose == [kind |-> "close"]
EmptyText == RawText(FALSE, BodyNone, FALSE)

Parsed(v) == [ok |-> TRUE, val |-> v]
NotParsed == [ok |-> FALSE, val |-> JNull]

\* json.loads(raw): the whole text must be one JSON value.
JsonLoads(raw) ==
    IF ~raw.lead /\ ~raw.trail /\ raw.body.kind = "json"
       THEN Parsed(raw.body.val)
       ELSE NotParsed

\* The items of a list value that are dicts (their text holds the braces).
ObjectItems(v) == {i \in 1 .. Len(v.items) : v.items[i].t = "obj"}

\* json.loads(raw[raw.index("{") : raw.rindex("}") + 1]) under except
\* Exception: the text from the first "{" to the last "}". It is JSON when
\* the body is a dict, or a list holding exactly one dict.
BraceExtract(raw) ==
    IF raw.body.kind # "json" THEN NotParsed
    ELSE IF raw.body.val.t = "obj" THEN Parsed(raw.body.val)
    ELSE IF raw.body.val.t = "list" /\ Cardinality(ObjectItems(raw.body.val)) = 1
       THEN Parsed(raw.body.val.items[CHOOSE i \in ObjectItems(raw.body.val) : TRUE])
    ELSE NotParsed

\* Python truth value of a JSON value (x or [] takes [] when x is falsy).
Falsy(v) ==
    \/ v.t = "null"
    \/ v.t = "bool" /\ ~v.b
    \/ v.t = "num" /\ v.n = 0
    \/ v.t = "str" /\ v.s = ""
    \/ v.t = "list" /\ Len(v.items) = 0
    \/ v.t = "obj" /\ DOMAIN v.f = {}

OrEmptyList(v) == IF Falsy(v) THEN JList(<<>>) ELSE v

\* dict.get(key, default)
DictGet(d, key, default) == IF key \in DOMAIN d.f THEN d.f[key] ELSE default

\* str.lower() on the strings of the model.
Lower(s) ==
    CASE s = "CRITICAL" -> "critical"
      [] s = "Security" -> "security"
      [] s = "Warning"  -> "warning"
      [] s = "None"     -> "none"
      [] s = "True"     -> "true"
      [] s = "False"    -> "false"
      [] OTHER          -> s

\* str(x)
PyStr(v) ==
    CASE v.t = "str"  -> v.s
      [] v.t = "num"  -> ToString(v.n)
      [] v.t = "null" -> "None"
      [] v.t = "bool" -> IF v.b THEN "True" ELSE "False"
      [] v.t = "list" -> "[...]"
      [] v.t = "obj"  -> "{...}"

\* int(x): [ok, n]; not ok stands for the ValueError / TypeError int raises.
NumericStrings == {"12", "0", "-3"}
StrToInt(s) == CASE s = "12" -> 12 [] s = "0" -> 0 [] s = "-3" -> 0 - 3
PyInt(v) ==
    CASE v.t = "num"  -> [ok |-> TRUE, n |-> v.n]
      [] v.t = "bool" -> [ok |-> TRUE, n |-> IF v.b THEN 1 ELSE 0]
      [] v.t = "str" /\ v.s \in NumericStrings -> [ok |-> TRUE, n |-> StrToInt(v.s)]
      [] OTHER -> [ok |-> FALSE, n |-> 0]

\* The characters of a str, as iterating over it yields them.
Chars(s) ==
    CASE s = "abc" -> <<"a", "b", "c">>
      [] s = ""    -> <<>>
      [] OTHER     -> <<s>>

RECURSIVE SetToSeq(_)
SetToSeq(S) ==
    IF S = {} THEN <<>>
    ELSE LET x == CHOOSE y \in S : TRUE IN <<x>> \o SetToSeq(S \ {x})

\* for c in comments_json: a list yields its items, a str its characters,
\* a dict its keys; a number or a bool is not iterable (TypeError).
Iterable(v) == v.t \in {"list", "str", "obj"}
IterItems(v) ==
    CASE v.t = "list" -> v.items
      [] v.t = "str"  -> [i \in 1 .. Len(Chars(v.s)) |-> JStr(Chars(v.s)[i])]
      [] v.t = "obj"  -> LET ks == SetToSeq(DOMAIN v.f)
                         IN [i \in 1 .. Len(ks) |-> JStr(ks[i])]

(***************************************************************************)
(* graphs/pr_review_graph.py: _parse_review_output                         *)
(***************************************************************************)

KnownFields ==
    {"file_path", "line", "severity", "category", "body", "rationale", "suggestion"}

\* ReviewComment(pr_number=..., file_path=c.get("file_path", ""), ...)
ReviewCommentOf(c, pr) ==
    [pr_number  |-> pr,
     file_path  |-> DictGet(c, "file_path", JStr("")),
     line       |-> PyInt(DictGet(c, "line", JNum(1))).n,
     severity   |-> Lower(PyStr(DictGet(c, "severity", JStr("info")))),
     category   |-> Lower(PyStr(DictGet(c, "category", JStr("readability")))),
     body       |-> DictGet(c, "body", JStr("")),
     rationale  |-> DictGet(c, "rationale", JStr("")),
     suggestion |-> DictGet(c, "suggestion", JNull),
     extra      |-> [k \in (DOMAIN c.f) \ KnownFields |-> c.f[k]]]

\* The body of the loop's try: c.get raises AttributeError when c is no
\* dict, int(...) raises on a line that is no number; except Exception
\* skips the item.
CommentRaises(c) ==
    \/ c.t # "obj"
    \/ ~PyInt(DictGet(c, "line", JNum(1))).ok

RECURSIVE ParseComments(_, _)
ParseComments(items, pr) ==
    IF Len(items) = 0 THEN <<>>
    ELSE IF CommentRaises(Head(items)) THEN ParseComments(Tail(items), pr)
    ELSE <<ReviewCommentOf(Head(items), pr)>> \o ParseComments(Tail(items), pr)

\* summary_text: "- " + "\n- ".join(str(s) ...), str(summary_items), or the
\* fallback text that quotes the raw output.
BulletText(items) ==
    [t |-> "text", form |-> "bullets",
     items |-> [i \in 1 .. Len(items) |-> PyStr(items[i])]]
PlainText(v) == [t |-> "text", form |-> "str", items |-> <<PyStr(v)>>]
FallbackText(raw) == [t |-> "text", form |-> "not valid JSON", raw |-> raw]

Returned(summary, comments) ==
    [exc |-> "none", summary |-> summary, comments |-> comments]
Raises(exc) == [exc |-> exc, summary |-> JNull, comments |-> <<>>]

\* data = json.loads(raw), or the brace-extracted text on JSONDecodeError
LoadData(raw) == IF JsonLoads(raw).ok THEN JsonLoads(raw) ELSE BraceExtract(raw)

\* data.get(...) on a value that is no dict raises AttributeError
DataGetRaises(data) == data.t # "obj"

\* _parse_review_output(raw, pr_number)
ParseReviewOutput(raw, pr) ==
    LET loaded == LoadData(raw) IN
    IF ~loaded.ok THEN Returned(FallbackText(raw), <<>>)
    ELSE IF DataGetRaises(loaded.val) THEN Raises("AttributeError")
    ELSE
      LET summary_items == OrEmptyList(DictGet(loaded.val, "summary", JNull))
          summary_text  == IF summary_items.t = "list"
                              THEN BulletText(summary_items.items)
                              ELSE PlainText(summary_items)
          comments_json == OrEmptyList(DictGet(loaded.val, "comments", JNull))
      IN IF ~Iterable(comments_json) THEN Raises("TypeError")
         ELSE Returned(summary_text, ParseComments(IterItems(comments_json), pr))

(***************************************************************************)
(* The model outputs tried                                                 *)
(***************************************************************************)

GoodComment ==
    JObj([file_path |-> JStr("x.py"), line |-> JNum(5), severity |-> JStr("CRITICAL"),
          category |-> JStr("Security"), body |-> JStr("b"), rationale |-> JStr("r")])
BareComment == JObj([body |-> JStr("b")])
LineComment(v) == JObj([file_path |-> JStr("x.py"), line |-> v, body |-> JStr("b")])
OddComment ==
    JObj([file_path |-> JStr("x.py"), line |-> JNum(2), severity |-> JStr("blocker"),
          category |-> JStr("style"), body |-> JStr("b")])
NullSeverityComment ==
    JObj([line |-> JNum(3), severity |-> JNull, category |-> JNum(4),
          suggestion |-> JStr("s"), confidence |-> JNum(9)])

Review(summary, comments) == JObj([summary |-> summary, comments |-> comments])
SpecExample == Review(JList(<<JStr("a")>>), JList(<<GoodComment>>))

JsonOutputs ==
    << SpecExample,
       Review(JList(<<JStr("a"), JStr("b")>>), JList(<<>>)),
       Review(JStr("one line"), JList(<<BareComment, LineComment(JStr("12"))>>)),
       Review(JNum(5), JList(<<LineComment(JStr("abc")), LineComment(JNum(0))>>)),
       JObj([comments |-> JList(<<LineComment(JNum(0 - 3)), LineComment(JNull), OddComment>>)]),
       Review(JNull, JNull),
       JObj(EmptyFields),
       Review(JList(<<JStr("a")>>), JNum(5)),
       Review(JList(<<JStr("a")>>), JBool(TRUE)),
       Review(JList(<<JStr("a")>>), JStr("abc")),
       Review(JList(<<JStr("a")>>), GoodComment),
       Review(JList(<<JNum(1), JNull>>),
              JList(<<JNum(7), JStr("oops"), JNull, NullSeverityComment>>)),
       Review(BareComment, JNum(0)),
       JList(<<>>),
       JList(<<SpecExample>>),
       JList(<<SpecExample, BareComment>>),
       JNum(42),
       JStr("ok"),
       JNull,
       JBool(TRUE) >>

\* resp.content: each JSON text as it is, and these texts.
OtherOutputs ==
    << EmptyText,
       RawText(TRUE, BodyNone, FALSE),
       RawText(TRUE, BodyBraces, TRUE),
       RawText(FALSE, BodyOpen, TRUE),
       RawText(TRUE, BodyClose, FALSE),
       RawText(TRUE, BodyJson(SpecExample), TRUE),
       RawText(TRUE, BodyJson(JList(<<SpecExample>>)), FALSE),
       RawText(TRUE, BodyJson(JList(<<SpecExample, BareComment>>)), TRUE),
       RawText(TRUE, BodyJson(JNum(42)), FALSE),
       RawText(FALSE, BodyJson(Review(JList(<<JStr("a")>>), JNum(5))), TRUE) >>

RawOutputs ==
    [i \in 1 .. Len(JsonOutputs) |-> RawText(FALSE, BodyJson(JsonOutputs[i]), FALSE)]
        \o OtherOutputs

(***************************************************************************)
(* graphs/pr_review_graph.py: the graph's nodes                            *)
(***************************************************************************)

PrNumbers == {7}
DiffChoices == {<<>>, <<"a.py">>, <<"a.py", "b.py">>}

\* What retrieve_chunks(repo_id, q, k=2) does for one DiffChunk: it raises
\* (no index, or the vector store or embedding call fails) or returns at most
\* two results.
RetrievalOutcomes ==
    {[raises |-> TRUE, docs |-> <<>>],
     [raises |-> FALSE, docs |-> <<>>],
     [raises |-> FALSE, docs |-> <<"s1">>],
     [raises |-> FALSE, docs |-> <<"s1", "s2">>]}

EmptyDict == [k \in {} |-> <<>>]

SetDefaultAlways(ctx, path, snippets) ==
    [p \in (DOMAIN ctx) \cup {path} |->
        (IF p \in DOMAIN ctx THEN ctx[p] ELSE <<>>)
            \o (IF p = path THEN snippets ELSE <<>>)]

\* context_snippets.setdefault(file_path, []).extend(snippets), if snippets
SetDefaultExtend(ctx, path, snippets) ==
    IF Len(snippets) = 0 THEN ctx
    ELSE [p \in (DOMAIN ctx) \cup {path} |->
             (IF p \in DOMAIN ctx THEN ctx[p] ELSE <<>>)
                 \o (IF p = path THEN snippets ELSE <<>>)]

\* The loop of gather_context_node over the chunks from index i on; outs[i]
\* is what the retrieval for chunk i does. An exception gives retrieved = [].
RECURSIVE GatherFrom(_, _, _, _)
GatherFrom(chunks, outs, i, ctx) ==
    IF i > Len(chunks) THEN ctx
    ELSE GatherFrom(chunks, outs, i + 1,
                    SetDefaultExtend(ctx, chunks[i],
                                     IF outs[i].raises THEN <<>> ELSE outs[i].docs))

\* retrieve_chunks(repo_id, q, k=2), once for each chunk, and what came of
\* it: whether it raised and how many results it returned.
GatherK == 2
GatherQueries(chunks, outs) ==
    [i \in 1 .. Len(chunks) |->
        [file_path |-> chunks[i], k |-> GatherK,
         raised |-> outs[i].raises,
         results |-> IF outs[i].raises THEN 0 ELSE Len(outs[i].docs)]]

LLMFailed == JStr("LLM call failed: e")

PassThroughNever(error) == FALSE

\* if state.get("error"): return state
PassThrough(error) == ~Falsy(error)

ReviewInit ==
    /\ rv_pc = "idle"
    /\ rv_pr = 0
    /\ rv_diffs = <<>>
    /\ rv_ctx = EmptyDict
    /\ rv_raw = JNull
    /\ rv_summary = JNull
    /\ rv_comments = <<>>
    /\ rv_error = JNull
    /\ rv_exc = "none"
    /\ rv_given = JNull
    /\ rv_trace = <<>>
    /\ rv_requests = 0
    /\ rv_queries = <<>>

\* pr_review_graph.invoke(state) for a state whose "error" is error: the
\* graph is entered at gather_context.
InvokeGraph(pr, diffs, error) ==
    /\ rv_pc \in {"idle", "END", "raised"}
    /\ rv_pc' = "gather_context"
    /\ rv_pr' = pr
    /\ rv_diffs' = diffs
    /\ rv_ctx' = EmptyDict
    /\ rv_raw' = JNull
    /\ rv_summary' = JNull
    /\ rv_comments' = <<>>
    /\ rv_error' = error
    /\ rv_exc' = "none"
    /\ rv_given' = error
    /\ rv_trace' = <<>>
    /\ rv_requests' = 0
    /\ rv_queries' = <<>>
    /\ OutsideReview

\* app.py: initial_state with "error": None, then
\* pr_review_graph.invoke(initial_state).
ReviewStart(pr, diffs) == InvokeGraph(pr, diffs, JNull)

\* gather_context_node
GatherContext(outs) ==
    /\ rv_pc = "gather_context"
    /\ rv_ctx' = GatherFrom(rv_diffs, outs, 1, EmptyDict)
    /\ rv_pc' = "call_llm"
    /\ rv_trace' = Append(rv_trace, "gather_context")
    /\ rv_queries' = rv_queries \o GatherQueries(rv_diffs, outs)
    /\ UNCHANGED <<rv_given, rv_pr, rv_diffs, rv_raw, rv_summary, rv_comments, rv_error, rv_exc,
                   rv_requests>>
    /\ OutsideReview

\* call_llm_node, llm.invoke returning resp
CallLLMReturns(content) ==
    /\ rv_pc = "call_llm"
    /\ rv_raw' = content
    /\ rv_error' = JNull
    /\ rv_pc' = "parse_output"
    /\ rv_trace' = Append(rv_trace, "call_llm")
    /\ rv_requests' = rv_requests + 1
    /\ UNCHANGED <<rv_given, rv_pr, rv_diffs, rv_ctx, rv_summary, rv_comments, rv_exc, rv_queries>>
    /\ OutsideReview

\* call_llm_node, llm.invoke raising
CallLLMRaises ==
    /\ rv_pc = "call_llm"
    /\ rv_raw' = EmptyText
    /\ rv_error' = LLMFailed
    /\ rv_pc' = "parse_output"
    /\ rv_trace' = Append(rv_trace, "call_llm")
    /\ rv_requests' = rv_requests + 1
    /\ UNCHANGED <<rv_given, rv_pr, rv_diffs, rv_ctx, rv_summary, rv_comments, rv_exc, rv_queries>>
    /\ OutsideReview

\* raw = state.get("raw_model_output") or ""
RawOrEmpty(raw) == IF raw = JNull \/ raw = EmptyText THEN EmptyText ELSE raw

\* parse_output_node with the error flag set
ParseOutputSkips ==
    /\ rv_pc = "parse_output"
    /\ PassThrough(rv_error)
    /\ rv_pc' = "END"
    /\ rv_trace' = Append(rv_trace, "parse_output")
    /\ UNCHANGED <<rv_given, rv_pr, rv_diffs, rv_ctx, rv_raw, rv_summary, rv_comments, rv_error, rv_exc,
                   rv_requests, rv_queries>>
    /\ OutsideReview

\* parse_output_node, _parse_review_output returning
ParseOutputReturns ==
    /\ rv_pc = "parse_output"
    /\ ~PassThrough(rv_error)
    /\ LET out == ParseReviewOutput(RawOrEmpty(rv_raw), rv_pr) IN
         /\ out.exc = "none"
         /\ rv_summary' = out.summary
         /\ rv_comments' = out.comments
    /\ rv_pc' = "END"
    /\ rv_trace' = Append(rv_trace, "parse_output")
    /\ UNCHANGED <<rv_given, rv_pr, rv_diffs, rv_ctx, rv_raw, rv_error, rv_exc, rv_requests, rv_queries>>
    /\ OutsideReview

\* parse_output_node, _parse_review_output raising: nothing in the node or
\* the graph catches it, so it leaves graph.invoke.
ParseOutputRaises ==
    /\ rv_pc = "parse_output"
    /\ ~PassThrough(rv_error)
    /\ LET out == ParseReviewOutput(RawOrEmpty(rv_raw), rv_pr) IN
         /\ out.exc # "none"
         /\ rv_exc' = out.exc
    /\ rv_pc' = "raised"
    /\ rv_trace' = Append(rv_trace, "parse_output")
    /\ UNCHANGED <<rv_given, rv_pr, rv_diffs, rv_ctx, rv_raw, rv_summary, rv_comments, rv_error,
                   rv_requests, rv_queries>>
    /\ OutsideReview

ReviewNext ==
    \/ \E pr \in PrNumbers, diffs \in DiffChoices : ReviewStart(pr, diffs)
    \/ \E outs \in [1 .. Len(rv_diffs) -> RetrievalOutcomes] : GatherContext(outs)
    \/ \E i \in 1 .. Len(RawOutputs) : CallLLMReturns(RawOutputs[i])
    \/ CallLLMRaises
    \/ ParseOutputSkips
    \/ ParseOutputReturns
    \/ ParseOutputRaises

\* The compiled graph called with any state: "error" None, or already set
\* by the caller.
GivenErrors == {JNull, JStr("failed before")}

NodesNext ==
    \/ \E pr \in PrNumbers, diffs \in DiffChoices, error \in GivenErrors :
          InvokeGraph(pr, diffs, error)
    \/ \E outs \in [1 .. Len(rv_diffs) -> RetrievalOutcomes] : GatherContext(outs)
    \/ \E i \in 1 .. Len(RawOutputs) : CallLLMReturns(RawOutputs[i])
    \/ CallLLMRaises
    \/ ParseOutputSkips
    \/ ParseOutputReturns
    \/ ParseOutputRaises

(***************************************************************************)
(* indexing/vector_store.py, indexing/index_metadata.py, metrics/store.py  *)
(***************************************************************************)

\* A repository id is a string, here the sequence of its pieces: "a/b" is
\* <<"a", "/", "b">> and "a__b" is <<"a", "_", "_", "b">>.
RECURSIVE ReplaceSlash(_)
\* repo_id.replace("/", "__")
ReplaceSlash(id) ==
    IF Len(id) = 0 THEN <<>>
    ELSE (IF Head(id) = "/" THEN <<"_", "_">> ELSE <<Head(id)>>) \o ReplaceSlash(Tail(id))

\* INDEXES_DIR / safe_id (vector_store._repo_index_path)
RepoIndexPath(repo_id) == ReplaceSlash(repo_id)
\* INDEXES_DIR / _safe_repo_id(repo_id) / "meta.json": the directory of it
MetaDir(repo_id) == ReplaceSlash(repo_id)
\* DATA_DIR / "metrics" / safe_repo (metrics.store._metrics_dir_for_repo)
MetricsDirForRepo(repo_id) == ReplaceSlash(repo_id)

\* The ids the store functions are called with, and the ids app.py builds
\* (f"github::{selected_full_name}").
StoreRepoIds == {<<"a", "/", "b">>, <<"a", "_", "_", "b">>, <<"c", "/", "d">>}
AppRepoIds == {<<"github::", "o", "/", "a">>, <<"github::", "o", "/", "b">>}
AllRepoIds == StoreRepoIds \cup AppRepoIds
SafeIds == {ReplaceSlash(r) : r \in AllRepoIds}

\* Bounds: documents per collection, clock readings.
MaxDocs == 2
MaxClock == 3

\* The chunk lists build_index is called with: CodeChunk(id, repo_id, ...).
Chunk(repo_id, id) ==
    [id |-> id, repo_id |-> repo_id, file_path |-> "f.py", language |-> "python",
     start_line |-> 1, end_line |-> 2, content |-> id]
ChunkLists(repo_id) == {<<Chunk(repo_id, "c1")>>, <<Chunk(repo_id, "c2")>>}

\* Document(page_content=chunk.content, metadata={...}) for each chunk
DocsOf(chunks) ==
    [i \in 1 .. Len(chunks) |->
        [page_content |-> chunks[i].content,
         repo_id      |-> chunks[i].repo_id,
         file_path    |-> chunks[i].file_path,
         language     |-> chunks[i].language,
         start_line   |-> chunks[i].start_line,
         end_line     |-> chunks[i].end_line,
         chunk_id     |-> chunks[i].id]]

\* Chroma.from_documents(documents, embedding, persist_directory): opens
\* (or creates) the collection persisted in the directory and adds the
\* documents to it under fresh ids. build_index neither clears the directory
\* nor passes ids, so what was stored stays.
StoreDocs(stored, docs) == stored \o docs

StoreInit ==
    /\ fs_dirs = {}
    /\ fs_coll = [d \in SafeIds |-> <<>>]
    /\ fs_meta = [d \in SafeIds |-> <<>>]
    /\ fs_mdirs = {}
    /\ fs_logs = [d \in SafeIds |-> <<>>]
    /\ clock = 0
    /\ uuids = 0
    /\ h_builds = [d \in SafeIds |-> 0]

\* build_index(repo_id, chunks), returning: the state of the index part of
\* the data directory after it.
BuildIndexDone(repo_id, chunks) ==
    LET dir == RepoIndexPath(repo_id) IN
    /\ Len(fs_coll[dir]) + Len(chunks) <= MaxDocs
    /\ fs_dirs' = fs_dirs \cup {dir}
    /\ fs_coll' = [fs_coll EXCEPT ![dir] = StoreDocs(@, DocsOf(chunks))]
    /\ h_builds' = [h_builds EXCEPT ![dir] = @ + 1]

\* build_index(repo_id, chunks) with the embedding request raising inside
\* Chroma.from_documents: persist_dir.mkdir has run, no document is stored.
BuildIndexRaised(repo_id) ==
    /\ fs_dirs' = fs_dirs \cup {RepoIndexPath(repo_id)}
    /\ UNCHANGED <<fs_coll, h_builds>>

\* load_index(repo_id): raises FileNotFoundError iff persist_dir is missing;
\* otherwise the handle of the collection in it.
LoadIndexRaisesNotFound(repo_id) == RepoIndexPath(repo_id) \notin fs_dirs
LoadIndex(repo_id) == fs_coll[RepoIndexPath(repo_id)]

IsoFormatCountingDown(t) == ToString(9 - t)

\* datetime.now(timezone.utc).isoformat()
IsoFormat(t) == ToString(t)

\* save_index_metadata(repo_id, file_count=..., chunk_count=..., commit_hash=...)
SaveIndexMetadataDone(repo_id, file_count, chunk_count, commit_hash) ==
    LET dir == MetaDir(repo_id) IN
    /\ clock < MaxClock
    /\ fs_dirs' = fs_dirs \cup {dir}
    /\ fs_meta' = [fs_meta EXCEPT ![dir] =
                      <<[repo_id     |-> repo_id,
                         file_count  |-> file_count,
                         chunk_count |-> chunk_count,
                         commit_hash |-> commit_hash,
                         indexed_at  |-> IsoFormat(clock)]>>]
    /\ clock' = clock + 1

\* load_index_metadata(repo_id): <<>> stands for None
LoadIndexMetadata(repo_id) == fs_meta[MetaDir(repo_id)]

\* Counter(c.<field> for c in comments), as a dict
CountByDistinct(comments, field) ==
    [k \in {comments[i][field] : i \in 1 .. Len(comments)} |-> 1]

\* dict(Counter(c.<field> for c in comments))
CountBy(comments, field) ==
    [k \in {comments[i][field] : i \in 1 .. Len(comments)} |->
        Cardinality({i \in 1 .. Len(comments) : comments[i][field] = k})]

\* ReviewRun(...).__dict__, the object json.dumps writes on one line
RunRecord(id, repo_id, pr_number, now, summary, comments) ==
    [id            |-> id,
     repo_id       |-> repo_id,
     pr_number     |-> pr_number,
     created_at    |-> now,
     summary       |-> summary,
     comment_count |-> Len(comments),
     stats         |-> [by_severity |-> CountBy(comments, "severity"),
                        by_category |-> CountBy(comments, "category")]]

\* path.open("w") in place of "a": the file holds the new line only.
WriteTruncating(file, line) == <<line>>

\* path.open("a") ... f.write(line + "\n")
WriteAppending(file, line) == Append(file, line)

\* save_review_run(repo_id, pr_number, summary, comments)
SaveReviewRunDone(repo_id, pr_number, summary, comments) ==
    LET dir == MetricsDirForRepo(repo_id) IN
    /\ clock < MaxClock
    /\ fs_mdirs' = fs_mdirs \cup {dir}
    /\ fs_logs' = [fs_logs EXCEPT ![dir] =
                      WriteAppending(@, RunRecord(ToString(uuids), repo_id, pr_number,
                                                  IsoFormat(clock), summary, comments))]
    /\ clock' = clock + 1
    /\ uuids' = uuids + 1

\* The keys load_review_runs reads with data[...]; a line without one of
\* them raises KeyError and is skipped.
RequiredKeys == {"id", "repo_id", "pr_number", "created_at", "summary", "comment_count"}
LineLoads(line) == RequiredKeys \subseteq DOMAIN line
RunOfLine(line) ==
    [id            |-> line.id,
     repo_id       |-> line.repo_id,
     pr_number     |-> line.pr_number,
     created_at    |-> line.created_at,
     summary       |-> line.summary,
     comment_count |-> line.comment_count,
     stats         |-> IF "stats" \in DOMAIN line THEN line.stats ELSE EmptyDict]

RECURSIVE RunsOfLines(_)
RunsOfLines(lines) ==
    IF Len(lines) = 0 THEN <<>>
    ELSE (IF LineLoads(Head(lines)) THEN <<RunOfLine(Head(lines))>> ELSE <<>>)
             \o RunsOfLines(Tail(lines))

\* load_review_runs(repo_id): what it returns, with the files being logs
ReviewRunsIn(logs, repo_id) == RunsOfLines(logs[MetricsDirForRepo(repo_id)])
LoadReviewRuns(repo_id) == ReviewRunsIn(fs_logs, repo_id)

(***************************************************************************)
(* The store functions called one at a time                                *)
(***************************************************************************)

PrChoices == {7}
SummaryChoices == {"s"}
CommentLists ==
    {<<>>,
     <<[severity |-> "critical", category |-> "security"]>>,
     <<[severity |-> "info", category |-> "security"],
       [severity |-> "info", category |-> "readability"]>>,
     <<[severity |-> "blocker", category |-> "style"],
       [severity |-> "none", category |-> "style"],
       [severity |-> "blocker", category |-> "style"]>>}

BuildIndex(repo_id, chunks) ==
    /\ BuildIndexDone(repo_id, chunks)
    /\ UNCHANGED <<fs_meta, fs_mdirs, fs_logs, clock, uuids>>
    /\ OutsideStore

BuildIndexFails(repo_id) ==
    /\ BuildIndexRaised(repo_id)
    /\ UNCHANGED <<fs_meta, fs_mdirs, fs_logs, clock, uuids>>
    /\ OutsideStore

SaveIndexMetadata(repo_id, chunk_count) ==
    /\ SaveIndexMetadataDone(repo_id, 1, chunk_count, "abc1234")
    /\ UNCHANGED <<fs_coll, fs_mdirs, fs_logs, uuids, h_builds>>
    /\ OutsideStore

SaveReviewRun(repo_id, pr_number, summary, comments) ==
    /\ SaveReviewRunDone(repo_id, pr_number, summary, comments)
    /\ UNCHANGED <<fs_dirs, fs_coll, fs_meta, h_builds>>
    /\ OutsideStore

\* load_review_runs(repo_id): _reviews_path creates the metrics directory
LoadReviewRunsCall(repo_id) ==
    /\ fs_mdirs' = fs_mdirs \cup {MetricsDirForRepo(repo_id)}
    /\ UNCHANGED <<fs_dirs, fs_coll, fs_meta, fs_logs, clock, uuids, h_builds>>
    /\ OutsideStore

\* load_index(repo_id) and load_index_metadata(repo_id) write nothing
LoadIndexCall(repo_id) ==
    /\ UNCHANGED storeVars
    /\ OutsideStore

LoadIndexMetadataCall(repo_id) ==
    /\ UNCHANGED storeVars
    /\ OutsideStore

MetricsNext ==
    \/ \E r \in StoreRepoIds, pr \in PrChoices, sm \in SummaryChoices, cs \in CommentLists :
          SaveReviewRun(r, pr, sm, cs)
    \/ \E r \in StoreRepoIds : LoadReviewRunsCall(r)

StoreNext ==
    \/ \E r \in StoreRepoIds : \E chunks \in ChunkLists(r) : BuildIndex(r, chunks)
    \/ \E r \in StoreRepoIds : BuildIndexFails(r)
    \/ \E r \in StoreRepoIds : LoadIndexCall(r)
    \/ \E r \in StoreRepoIds : SaveIndexMetadata(r, 1)
    \/ \E r \in StoreRepoIds : LoadIndexMetadataCall(r)
    \/ \E r \in StoreRepoIds, pr \in PrChoices, sm \in SummaryChoices :
          SaveReviewRun(r, pr, sm, <<>>)
    \/ \E r \in StoreRepoIds : LoadReviewRunsCall(r)

(***************************************************************************)
(* app.py: Fetch & Index, the index gate and the Code Q&A tab              *)
(***************************************************************************)

\* Bounds: entries the session's cache may hold, button clicks in a session.
MaxCache == 2
MaxClicks == 4

\* One more click is handled.
Click == h_clicks < MaxClicks /\ h_clicks' = h_clicks + 1

\* Embedding vectors, with integer components so that cosine similarities
\* compare exactly: cos(E1, E2) = 9/10, cos(E1, E4) = 2/sqrt(5) < 0.9,
\* cos(E2, E4) = 21/sqrt(500) > 0.9. EZ has norm zero.
E1 == <<1, 0, 0, 0>>
E2 == <<9, 3, 3, 1>>
E4 == <<2, 1, 0, 0>>
EZ == <<0, 0, 0, 0>>

\* The questions asked and what embed_query returns for each.
Questions == {"q1", "q2", "q4", "qz"}
EmbedQuery(q) ==
    CASE q = "q1" -> E1
      [] q = "q2" -> E2
      [] q = "q4" -> E4
      [] OTHER    -> EZ

RECURSIVE SumOver(_, _)
SumOver(f, n) == IF n = 0 THEN 0 ELSE f[n] + SumOver(f, n - 1)

\* sum(x * y for x, y in zip(a, b))
Dot(a, b) ==
    LET n == IF Len(a) < Len(b) THEN Len(a) ELSE Len(b) IN
    SumOver([i \in 1 .. n |-> a[i] * b[i]], n)

\* A similarity dot / (na * nb) is kept as its numerator and the square of
\* its denominator; 0.0 is 0 over 1.
Sim(num, den2) == [num |-> num, den2 |-> den2]
ZeroSim == Sim(0, 1)

\* cosine_sim(a, b)
CosineSim(a, b) ==
    IF Dot(a, a) = 0 \/ Dot(b, b) = 0 THEN ZeroSim
    ELSE Sim(Dot(a, b), Dot(a, a) * Dot(b, b))

\* sim > best_sim
SimGreater(s, t) ==
    IF s.num >= 0 /\ t.num >= 0 THEN s.num * s.num * t.den2 > t.num * t.num * s.den2
    ELSE IF s.num >= 0 THEN TRUE
    ELSE IF t.num >= 0 THEN FALSE
    ELSE s.num * s.num * t.den2 < t.num * t.num * s.den2

\* SEMANTIC_THRESHOLD = 0.90, in hundredths
SEMANTIC_THRESHOLD == 90

MeetsThresholdStrict(s) ==
    s.num > 0 /\ 100 * 100 * s.num * s.num > SEMANTIC_THRESHOLD * SEMANTIC_THRESHOLD * s.den2

\* best_sim >= SEMANTIC_THRESHOLD
MeetsThreshold(s) ==
    s.num > 0 /\ 100 * 100 * s.num * s.num >= SEMANTIC_THRESHOLD * SEMANTIC_THRESHOLD * s.den2

\* meta.get("indexed_at") if meta else "no-index-meta"
IndexVersion(repo_id) ==
    LET meta == LoadIndexMetadata(repo_id) IN
    IF meta # <<>> THEN meta[1].indexed_at ELSE "no-index-meta"

\* The scan of the cache: best is the index of best_entry (0 for None).
ScanStart == [best |-> 0, sim |-> ZeroSim]

RECURSIVE ScanCache(_, _, _, _, _, _)
ScanCache(cache, i, repo_id, index_version, q_emb, acc) ==
    IF i > Len(cache) THEN acc
    ELSE LET entry == cache[i]
             sim   == CosineSim(q_emb, entry.embedding)
             next  == IF entry.repo_id # repo_id THEN acc
                      ELSE IF entry.index_version # index_version THEN acc
                      ELSE IF SimGreater(sim, acc.sim) THEN [best |-> i, sim |-> sim]
                      ELSE acc
         IN ScanCache(cache, i + 1, repo_id, index_version, q_emb, next)

\* if best_entry and best_sim >= SEMANTIC_THRESHOLD
CacheHit(scan) == scan.best # 0 /\ MeetsThreshold(scan.sim)

\* retrieve_chunks(repo_id, question, k=6): the k nearest documents of the
\* collection, each with the distance the search gave it.
RetrieveK == 6
\* What the fallback meets: a search whose distances are all 1 ("near") or
\* all 3 ("far"), or a near search followed by answer_with_rag raising
\* ("llm_fails"): the exception ends the handler before anything is stored.
\* When retrieve_chunks raises, the handler ends as it does at st.stop()
\* for "far", with the session state as it was.
RagOutcomes == {"near", "far", "llm_fails"}
Distance(rag) == IF rag = "far" THEN 3 ELSE 1
RetrieveChunks(repo_id, distance) ==
    LET docs == LoadIndex(repo_id)
        n    == IF Len(docs) < RetrieveK THEN Len(docs) ELSE RetrieveK
    IN [i \in 1 .. n |-> [content |-> docs[i].page_content,
                          metadata |-> [f \in DOMAIN docs[i] \ {"page_content"} |-> docs[i][f]],
                          score |-> distance]]

\* MAX_DISTANCE = 2; filtered keeps the results with score < MAX_DISTANCE
MAX_DISTANCE == 2
Filtered(retrieved) == SelectSeq(retrieved, LAMBDA r : r.score < MAX_DISTANCE)

\* sources_meta: the metadata of the used chunks, one per (file_path,
\* start_line, end_line)
SourceKey(m) == <<m.file_path, m.start_line, m.end_line>>
RECURSIVE SourcesMeta(_, _)
SourcesMeta(used, seen) ==
    IF Len(used) = 0 THEN <<>>
    ELSE LET m == Head(used).metadata IN
         IF SourceKey(m) \in seen THEN SourcesMeta(Tail(used), seen)
         ELSE <<m>> \o SourcesMeta(Tail(used), seen \cup {SourceKey(m)})

\* answer_with_rag(question, filtered): the model's answer, told apart by
\* the question and the chunks it was given.
AnswerWithRag(question, filtered) ==
    [question |-> question, context |-> [i \in 1 .. Len(filtered) |-> filtered[i].content]]

CachePrepend(cache, entry) == <<entry>> \o cache

\* st.session_state.qa_semantic_cache.append({...})
CacheAppend(cache, entry) == Append(cache, entry)

\* How embed_query behaves during one Ask: it returns at line 276; it raises
\* there and returns at line 341; it raises both times.
EmbedOutcomes == {"ok", "late", "fail"}

NoAsk == [via |-> "none", repo_id |-> <<>>, question |-> "",
          embedded |-> FALSE, best |-> 0]

QAInit ==
    /\ qa_cache = <<>>
    /\ qa_answer = <<>>
    /\ qa_sources = <<>>
    /\ qa_last = NoAsk
    /\ h_gen = <<>>
    /\ h_clicks = 0

\* Fetch & Index with clone_or_update_repo, list_code_files or
\* chunk_repository raising: nothing is written.
FetchIndexCloneFails(repo_id) ==
    /\ Click
    /\ qa_last' = NoAsk
    /\ UNCHANGED <<storeVars, qa_cache, qa_answer, qa_sources, h_gen>>
    /\ OutsideApp

\* Fetch & Index with build_index raising in Chroma.from_documents.
FetchIndexBuildFails(repo_id) ==
    /\ Click
    /\ BuildIndexRaised(repo_id)
    /\ UNCHANGED <<fs_meta, fs_mdirs, fs_logs, clock, uuids>>
    /\ qa_last' = NoAsk
    /\ UNCHANGED <<qa_cache, qa_answer, qa_sources, h_gen>>
    /\ OutsideApp

\* Fetch & Index with build_index returning and save_index_metadata raising:
\* meta.json is as it was when open() raised (kept), and cut short, which
\* load_index_metadata reads as None, when the write raised.
FetchIndexMetaFails(repo_id, chunks, kept) ==
    /\ BuildIndexDone(repo_id, chunks)
    /\ fs_meta' = IF kept THEN fs_meta ELSE [fs_meta EXCEPT ![MetaDir(repo_id)] = <<>>]
    /\ Click
    /\ UNCHANGED <<fs_mdirs, fs_logs, clock, uuids>>
    /\ qa_last' = NoAsk
    /\ UNCHANGED <<qa_cache, qa_answer, qa_sources, h_gen>>
    /\ OutsideApp

\* Fetch & Index running to st.success.
FetchIndexOK(repo_id, chunks) ==
    /\ BuildIndexDone(repo_id, chunks)
    /\ SaveIndexMetadataDone(repo_id, 1, Len(chunks), "abc1234")
    /\ Click
    /\ UNCHANGED <<fs_mdirs, fs_logs, uuids>>
    /\ qa_last' = NoAsk
    /\ UNCHANGED <<qa_cache, qa_answer, qa_sources, h_gen>>
    /\ OutsideApp

\* indexed = ensure_index_exists(repo_id)
EnsureIndexExists(repo_id) == ~LoadIndexRaisesNotFound(repo_id)

\* The Ask button with a non-blank question, for the selected repository.
Ask(repo_id, question, emb, rag) ==
    LET index_version == IndexVersion(repo_id)
        q_emb     == EmbedQuery(question)
        scan      == IF emb = "ok"
                     THEN ScanCache(qa_cache, 1, repo_id, index_version, q_emb, ScanStart)
                     ELSE ScanStart
        retrieved == RetrieveChunks(repo_id, Distance(rag))
        filtered  == Filtered(retrieved)
        answer    == AnswerWithRag(question, filtered)
        sources   == SourcesMeta(filtered, {})
        entry     == [repo_id |-> repo_id, index_version |-> index_version,
                      question |-> question, embedding |-> q_emb,
                      answer |-> answer, sources |-> sources]
        last(via) == [via |-> via, repo_id |-> repo_id,
                      question |-> question, embedded |-> (emb = "ok"),
                      best |-> IF via = "cache" THEN scan.best ELSE 0]
    IN
    /\ EnsureIndexExists(repo_id)
    /\ Click
    /\ IF CacheHit(scan)
       THEN /\ qa_answer' = qa_cache[scan.best].answer
            /\ qa_sources' = qa_cache[scan.best].sources
            /\ qa_last' = last("cache")
            /\ UNCHANGED <<qa_cache, h_gen>>
       ELSE IF Len(retrieved) = 0 \/ Len(filtered) = 0
       THEN /\ qa_last' = last("none")
            /\ UNCHANGED <<qa_cache, qa_answer, qa_sources, h_gen>>
       ELSE IF rag = "llm_fails"
       THEN /\ qa_last' = last("failed")
            /\ UNCHANGED <<qa_cache, qa_answer, qa_sources, h_gen>>
       ELSE /\ qa_answer' = answer
            /\ qa_sources' = sources
            /\ qa_last' = last("rag")
            /\ IF emb # "fail"
               THEN /\ Len(qa_cache) < MaxCache
                    /\ qa_cache' = CacheAppend(qa_cache, entry)
                    /\ h_gen' = Append(h_gen, h_builds[RepoIndexPath(repo_id)])
               ELSE UNCHANGED <<qa_cache, h_gen>>
    /\ UNCHANGED storeVars
    /\ OutsideApp

\* The outcomes of the calls of one Ask that are tried together: every
\* retrieval and model outcome with the question embedded, a near search
\* with each embedding failure, and a far search with no embedding at all.
AskOutcomes ==
    ({"ok"} \X RagOutcomes) \cup ({"late", "fail"} \X {"near"}) \cup {<<"fail", "far">>}

\* chunk_repository(repo_id, files) for the repository as cloned.
AppChunkLists(repo_id) == {<<Chunk(repo_id, "c1")>>}

QANext ==
    \/ \E r \in AppRepoIds : FetchIndexCloneFails(r)
    \/ \E r \in AppRepoIds : FetchIndexBuildFails(r)
    \/ \E r \in AppRepoIds : \E chunks \in AppChunkLists(r), kept \in BOOLEAN :
          FetchIndexMetaFails(r, chunks, kept)
    \/ \E r \in AppRepoIds : \E chunks \in AppChunkLists(r) : FetchIndexOK(r, chunks)
    \/ \E r \in AppRepoIds, q \in Questions, o \in AskOutcomes : Ask(r, q, o[1], o[2])

(***************************************************************************)
(* app.py: the Run AI Review button                                        *)
(***************************************************************************)

RunFailedNever(error) == FALSE

\* if final_state.get("error"): raise RuntimeError(final_state["error"])
RunFailed(error) == ~Falsy(error)

\* final_state.get("summary_text") or ""
SummaryOrEmpty(summary) == IF Falsy(summary) THEN EmptyText ELSE summary

\* The button is clicked and the graph is invoked with the initial state.
\* One click that gets to save_review_run is followed per session.
RunReviewClick(pr, diffs) ==
    /\ rv_pc \in {"idle", "raised"}
    /\ ReviewStart(pr, diffs)

\* The graph returned with error set: RuntimeError is raised and caught by
\* the handler's except, which shows it; nothing is saved.
RunReviewFails ==
    /\ rv_pc = "END"
    /\ RunFailed(rv_error)
    /\ rv_pc' = "failed"
    /\ UNCHANGED <<rv_given, rv_pr, rv_diffs, rv_ctx, rv_raw, rv_summary, rv_comments,
                   rv_error, rv_exc, rv_trace, rv_requests, rv_queries>>
    /\ OutsideReview

\* The graph returned without error: the summary and the comments are kept
\* in the session and save_review_run is called for the selected repository.
RunReviewSaves(repo_id) ==
    /\ rv_pc = "END"
    /\ ~RunFailed(rv_error)
    /\ SaveReviewRunDone(repo_id, rv_pr, SummaryOrEmpty(rv_summary), rv_comments)
    /\ rv_pc' = "saved"
    /\ UNCHANGED <<rv_given, rv_pr, rv_diffs, rv_ctx, rv_raw, rv_summary, rv_comments,
                   rv_error, rv_exc, rv_trace, rv_requests, rv_queries>>
    /\ UNCHANGED <<fs_dirs, fs_coll, fs_meta, h_builds>>
    /\ UNCHANGED <<retryVars, qaVars, callVars, diffVars, chunkVars>>

RunNext ==
    \/ \E pr \in PrNumbers, diffs \in DiffChoices : RunReviewClick(pr, diffs)
    \/ \E outs \in [1 .. Len(rv_diffs) -> RetrievalOutcomes] : GatherContext(outs)
    \/ \E i \in 1 .. Len(RawOutputs) : CallLLMReturns(RawOutputs[i])
    \/ CallLLMRaises
    \/ ParseOutputSkips
    \/ ParseOutputReturns
    \/ ParseOutputRaises
    \/ RunReviewFails
    \/ \E r \in AppRepoIds : RunReviewSaves(r)

(***************************************************************************)
(* The external calls: auth/github_pr_client.py, llm/chat_llm.py,          *)
(* graphs/pr_review_graph.py                                               *)
(***************************************************************************)

\* The functions that call GitHub or the chat model.
ExternalCalls ==
    {"list_pull_requests", "get_pull_request_files", "post_pr_issue_comment",
     "answer_with_rag", "call_llm_node"}

\* Whether the request is made inside a function decorated with
\* @with_retry(): only _call_chat_model (used by answer_with_rag) is.
\* _get_with_retry and _post_with_retry are decorated but never called;
\* the three GitHub functions call requests.get / requests.post themselves
\* and call_llm_node calls llm.invoke.
ThroughWithRetry(op) == op = "answer_with_rag"

\* The errors the request of each function can raise.
ErrorsOf(op) ==
    IF op \in {"answer_with_rag", "call_llm_node"}
    THEN {e \in Errors : e.cls \in {"RateLimitError", "AuthenticationError"}}
    ELSE {e \in Errors : e.cls = "HTTPError"}

\* The defaults of @with_retry(): max_retries, base_delay 1.0 s and
\* jitter 0.5 s in ticks of a quarter second.
DefaultMaxRetries == 3
DefaultBaseDelay == 4
DefaultJitter == 2

\* Bound: the non-empty pages GitHub returns for one pull request.
MaxPages == 2

CallsInit ==
    /\ xc_pc = "idle"
    /\ xc_op = "none"
    /\ xc_attempt = 0
    /\ xc_delay = 0
    /\ xc_sleeps = <<>>
    /\ xc_page = 0
    /\ xc_hist = <<>>
    /\ xc_raised = NoError

\* The function is called.
ExternalCall(op) ==
    /\ xc_pc \in {"idle", "returned", "raised"}
    /\ xc_pc' = "calling"
    /\ xc_op' = op
    /\ xc_attempt' = 0
    /\ xc_delay' = IF ThroughWithRetry(op) THEN DefaultBaseDelay ELSE 0
    /\ xc_sleeps' = <<>>
    /\ xc_page' = 0
    /\ xc_hist' = <<>>
    /\ xc_raised' = NoError
    /\ OutsideCalls

\* get_pull_request_files: the page requested came back non-empty; the
\* files are kept and the next page is requested.
ExternalCallNextPage ==
    /\ xc_pc = "calling"
    /\ xc_op = "get_pull_request_files"
    /\ xc_page < MaxPages
    /\ xc_page' = xc_page + 1
    /\ UNCHANGED <<xc_pc, xc_op, xc_attempt, xc_delay, xc_sleeps, xc_hist, xc_raised>>
    /\ OutsideCalls

\* The request returns (for get_pull_request_files, an empty page) and so
\* does the function.
ExternalCallReturns ==
    /\ xc_pc = "calling"
    /\ xc_pc' = "returned"
    /\ UNCHANGED <<xc_op, xc_attempt, xc_delay, xc_sleeps, xc_page, xc_hist, xc_raised>>
    /\ OutsideCalls

\* The request raises e and e leaves the function: there is no wrapper, or
\* the wrapper lets e out.
ExternalCallRaises(e) ==
    /\ xc_pc = "calling"
    /\ e \in ErrorsOf(xc_op)
    /\ \/ ~ThroughWithRetry(xc_op)
       \/ ~CaughtByRetryOn(e)
       \/ NonRetriableHTTP(e)
       \/ IsLastAttempt(xc_attempt, DefaultMaxRetries)
    /\ xc_hist' = Append(xc_hist, Raised(e, Len(xc_hist) + 1))
    /\ xc_raised' = Raised(e, Len(xc_hist) + 1)
    /\ xc_pc' = "raised"
    /\ UNCHANGED <<xc_op, xc_attempt, xc_delay, xc_sleeps, xc_page>>
    /\ OutsideCalls

\* The request raises e inside the wrapper, which sleeps and tries again.
ExternalCallRetries(e, r) ==
    /\ xc_pc = "calling"
    /\ e \in ErrorsOf(xc_op)
    /\ ThroughWithRetry(xc_op)
    /\ CaughtByRetryOn(e)
    /\ ~NonRetriableHTTP(e)
    /\ ~IsLastAttempt(xc_attempt, DefaultMaxRetries)
    /\ xc_hist' = Append(xc_hist, Raised(e, Len(xc_hist) + 1))
    /\ xc_sleeps' = Append(xc_sleeps, xc_delay + r)
    /\ xc_delay' = xc_delay * 2
    /\ xc_attempt' = xc_attempt + 1
    /\ UNCHANGED <<xc_pc, xc_op, xc_page, xc_raised>>
    /\ OutsideCalls

CallsNext ==
    \/ \E op \in ExternalCalls : ExternalCall(op)
    \/ ExternalCallNextPage
    \/ ExternalCallReturns
    \/ \E e \in Errors : ExternalCallRaises(e)
    \/ \E e \in Errors, r \in JitterDraws(DefaultJitter) : ExternalCallRetries(e, r)

(***************************************************************************)
(* pr/diff_ingestion.py: text                                              *)
(***************************************************************************)

\* A text is the sequence of its characters: "+12,8" is
\* <<"+", "1", "2", ",", "8">>.
DigitChars == <<"0", "1", "2", "3", "4", "5", "6", "7", "8", "9">>
IsDigit(c) == \E i \in 1 .. 10 : DigitChars[i] = c
DigitValue(c) == (CHOOSE i \in 1 .. 10 : DigitChars[i] = c) - 1

\* s.startswith(p)
StartsWith(s, p) == Len(s) >= Len(p) /\ SubSeq(s, 1, Len(p)) = p

\* s.lstrip(c) for one character c; s.strip() of blanks
RECURSIVE LStripChar(_, _)
LStripChar(s, c) ==
    IF Len(s) > 0 /\ Head(s) = c THEN LStripChar(Tail(s), c) ELSE s
RECURSIVE RStripChar(_, _)
RStripChar(s, c) ==
    IF Len(s) > 0 /\ s[Len(s)] = c THEN RStripChar(SubSeq(s, 1, Len(s) - 1), c) ELSE s
Strip(s) == RStripChar(LStripChar(s, " "), " ")

\* The index of the first c in s, 0 when there is none.
RECURSIVE FindFrom(_, _, _)
FindFrom(s, c, i) ==
    IF i > Len(s) THEN 0 ELSE IF s[i] = c THEN i ELSE FindFrom(s, c, i + 1)
Find(s, c) == FindFrom(s, c, 1)

\* s.split(c): every piece between two c, empty pieces kept
RECURSIVE Split(_, _)
Split(s, c) ==
    LET i == Find(s, c) IN
    IF i = 0 THEN <<s>>
    ELSE <<SubSeq(s, 1, i - 1)>> \o Split(SubSeq(s, i + 1, Len(s)), c)

\* s.split(c, 1) for an s that holds c
SplitOnce(s, c) ==
    LET i == Find(s, c) IN <<SubSeq(s, 1, i - 1), SubSeq(s, i + 1, Len(s))>>

\* The value of a run of digits.
RECURSIVE DigitsValue(_, _)
DigitsValue(s, acc) ==
    IF Len(s) = 0 THEN acc ELSE DigitsValue(Tail(s), acc * 10 + DigitValue(Head(s)))

\* int(s): [ok, n]; an optional sign and then one or more digits, anything
\* else is the ValueError (not ok).
ParseInt(s) ==
    LET signed == Len(s) > 0 /\ Head(s) \in {"+", "-"}
        digits == IF signed THEN Tail(s) ELSE s
        value  == DigitsValue(digits, 0)
    IN IF Len(digits) = 0 \/ \E i \in 1 .. Len(digits) : ~IsDigit(digits[i])
       THEN [ok |-> FALSE, n |-> 0]
       ELSE [ok |-> TRUE, n |-> IF signed /\ Head(s) = "-" THEN 0 - value ELSE value]

(***************************************************************************)
(* pr/diff_ingestion.py: _parse_unified_header                             *)
(***************************************************************************)

AtAt == <<"@", "@">>
Plus == <<"+">>

HeaderResult(header, new_start, new_end) ==
    [header |-> header, new_start |-> new_start, new_end |-> new_end]

NewEndExclusive(new_start, new_len) == new_start + new_len

\* new_end = new_start + new_len - 1
NewEnd(new_start, new_len) == new_start + new_len - 1

\* The body of the try for the stripped line: [ok, new_start, new_end]; not
\* ok stands for the exception (IndexError when no part starts with "+",
\* ValueError from int).
ParseHunkLine(line) ==
    LET parts      == Split(line, " ")
        plus_parts == SelectSeq(parts, LAMBDA p : StartsWith(p, Plus))
        failed     == [ok |-> FALSE, new_start |-> 1, new_end |-> 1]
    IN IF Len(plus_parts) = 0 THEN failed
       ELSE LET plus_part == LStripChar(plus_parts[1], "+") IN
            IF Find(plus_part, ",") # 0
            THEN LET start == ParseInt(SplitOnce(plus_part, ",")[1])
                     len   == ParseInt(SplitOnce(plus_part, ",")[2])
                 IN IF ~start.ok \/ ~len.ok THEN failed
                    ELSE [ok |-> TRUE, new_start |-> start.n,
                          new_end |-> NewEnd(start.n, len.n)]
            ELSE LET start == ParseInt(plus_part) IN
                 IF ~start.ok THEN failed
                 ELSE [ok |-> TRUE, new_start |-> start.n, new_end |-> NewEnd(start.n, 1)]

\* The for loop over patch.splitlines(), from line i on.
RECURSIVE ScanPatchLines(_, _)
ScanPatchLines(lines, i) ==
    IF i > Len(lines) THEN HeaderResult(<<>>, 1, 1)
    ELSE LET line == Strip(lines[i]) IN
         IF StartsWith(line, AtAt)
         THEN LET r == ParseHunkLine(line) IN
              IF r.ok THEN HeaderResult(line, r.new_start, r.new_end)
              ELSE HeaderResult(line, 1, 1)
         ELSE ScanPatchLines(lines, i + 1)

\* _parse_unified_header(patch); a patch is the sequence of its lines, as
\* splitlines gives them.
ParseUnifiedHeader(patch) ==
    IF Len(patch) = 0 THEN HeaderResult(<<>>, 1, 1) ELSE ScanPatchLines(patch, 1)

(***************************************************************************)
(* pr/diff_ingestion.py: the file payloads and                             *)
(* build_diff_chunks_from_github_files                                     *)
(***************************************************************************)

\* The decimal digits of a natural number.
RECURSIVE Decimal(_)
Decimal(n) ==
    IF n < 10 THEN <<DigitChars[n + 1]>> ELSE Decimal(n \div 10) \o <<DigitChars[(n % 10) + 1]>>

\* Join the texts with one blank between them.
RECURSIVE JoinBlank(_)
JoinBlank(texts) ==
    IF Len(texts) = 0 THEN <<>>
    ELSE IF Len(texts) = 1 THEN texts[1]
    ELSE texts[1] \o <<" ">> \o JoinBlank(Tail(texts))

\* "+c,d" or "+c"
NewRange(c, d, hasD) ==
    Plus \o Decimal(c) \o (IF hasD THEN <<",">> \o Decimal(d) ELSE <<>>)

\* "@@ -10,5 +c,d @@" or "@@ -1 +c @@"
HunkLine(c, d, hasD) ==
    JoinBlank(<<AtAt, IF hasD THEN <<"-", "1", "0", ",", "5">> ELSE <<"-", "1">>,
                NewRange(c, d, hasD), AtAt>>)

\* Lines of a patch that are no hunk header: an added line, and a context
\* line whose text goes on with a "+" word.
AddedLine == <<"+", "x">>
ContextLine == <<" ", "a", " ", "+", "9">>

\* The text GitHub puts after the second "@@": the enclosing function.
SectionText == <<"d", "e", "f", " ", "+", "7", ",", "7">>

\* The values the new range takes in the hunk headers tried.
NewStarts == {0, 1, 12}
NewLengths == {0, 8}

\* What the "patch" of a file payload looks like:
\*   hunk      a hunk header for +c[,d], then lines; "section" adds the text
\*             after the header, "again" a second hunk further down;
\*   nohunk    lines, none beginning with "@@";
\*   noplus, badstart, badlen   a first "@@" line with no "+" part, with a
\*             start that is no number, with a length that is no number;
\*   empty     the empty string;  absent  no "patch" key (a binary file).
HunkShapes ==
    {[kind |-> "hunk", c |-> c, d |-> d, hasD |-> hasD, more |-> "none"] :
        c \in NewStarts, d \in NewLengths, hasD \in BOOLEAN}
    \cup {[kind |-> "hunk", c |-> 12, d |-> 8, hasD |-> TRUE, more |-> m] :
            m \in {"section", "again"}}
OtherShapes ==
    {[kind |-> k, c |-> 1, d |-> 1, hasD |-> FALSE, more |-> "none"] :
        k \in {"nohunk", "noplus", "badstart", "badlen", "empty", "absent"}}
PatchShapes == HunkShapes \cup OtherShapes

\* The lines of the patch of a shape.
PatchOf(shape) ==
    CASE shape.kind = "hunk" /\ shape.more = "none" ->
             <<HunkLine(shape.c, shape.d, shape.hasD), AddedLine, ContextLine>>
      [] shape.kind = "hunk" /\ shape.more = "section" ->
             <<JoinBlank(<<HunkLine(shape.c, shape.d, shape.hasD), SectionText>>), AddedLine>>
      [] shape.kind = "hunk" /\ shape.more = "again" ->
             <<HunkLine(shape.c, shape.d, shape.hasD), AddedLine, HunkLine(40, 2, TRUE), AddedLine>>
      [] shape.kind = "nohunk"   -> <<AddedLine, ContextLine>>
      [] shape.kind = "noplus"   -> <<JoinBlank(<<AtAt, <<"-", "1", ",", "2">>, AtAt>>), AddedLine>>
      [] shape.kind = "badstart" ->
             <<JoinBlank(<<AtAt, <<"-", "1">>, <<"+", "x", ",", "2">>, AtAt>>), AddedLine>>
      [] shape.kind = "badlen"   ->
             <<JoinBlank(<<AtAt, <<"-", "1">>, <<"+", "3", ",", "y">>, AtAt>>), AddedLine>>
      [] OTHER                   -> <<>>

\* One entry of files_json.
FileNames == <<"f1", "f2", "f3", "f4">>
FilePayload(shape, filename) ==
    [filename  |-> filename,
     status    |-> IF shape.kind = "hunk" /\ shape.c = 0 THEN "removed" ELSE "modified",
     has_patch |-> shape.kind # "absent",
     patch     |-> PatchOf(shape),
     shape     |-> shape]

\* Bound: the files of a pull request.
MaxFiles == 2

\* if not patch: the key is missing, or the text is empty
NoPatch(f) == ~f.has_patch \/ Len(f.patch) = 0

\* DiffChunk(...) for a file with a patch; n is the number of chunks made
\* before, which stands in for the fresh uuid.
DiffChunkOf(repo_id, pr_number, f, n) ==
    LET parsed == ParseUnifiedHeader(f.patch) IN
    [id          |-> n + 1,
     repo_id     |-> repo_id,
     pr_number   |-> pr_number,
     file_path   |-> f.filename,
     status      |-> f.status,
     hunk_header |-> parsed.header,
     new_start   |-> parsed.new_start,
     new_end     |-> parsed.new_end,
     patch_text  |-> f.patch]

\* build_diff_chunks_from_github_files(repo_id, pr_number, files_json)
RECURSIVE BuildDiffChunksFrom(_, _, _, _)
BuildDiffChunksFrom(repo_id, pr_number, files, chunks) ==
    IF Len(files) = 0 THEN chunks
    ELSE IF NoPatch(Head(files))
         THEN BuildDiffChunksFrom(repo_id, pr_number, Tail(files), chunks)
         ELSE BuildDiffChunksFrom(repo_id, pr_number, Tail(files),
                  Append(chunks, DiffChunkOf(repo_id, pr_number, Head(files), Len(chunks))))
BuildDiffChunks(repo_id, pr_number, files) ==
    BuildDiffChunksFrom(repo_id, pr_number, files, <<>>)

DiffInit ==
    /\ df_files = <<>>
    /\ df_chunks = <<>>

\* The one call of a behaviour, with the payloads of the shapes given.
BuildDiffChunksCall(shapes) ==
    LET files == [i \in 1 .. Len(shapes) |-> FilePayload(shapes[i], FileNames[i])] IN
    /\ Len(df_files) = 0
    /\ df_files' = files
    /\ df_chunks' = BuildDiffChunks(<<"o", "/", "a">>, 7, files)
    /\ OutsideDiff

DiffNext ==
    \E n \in 0 .. MaxFiles : \E shapes \in [1 .. n -> PatchShapes] : BuildDiffChunksCall(shapes)

(***************************************************************************)
(* ingestion/parser.py: chunk_file                                         *)
(***************************************************************************)
MaxLines == 4

MaxWindow == 2

\* The loop below is cut after this many passes; a call that returns makes
\* fewer passes than the file has lines.
MaxIter == MaxLines + 1

\* A line of the file: empty, blanks only, or code.
LineTexts == {"", " ", "x"}

FileLines == UNION {[1..n -> LineTexts] : n \in 0..MaxLines}

WindowSizes == 1..MaxWindow

Overlaps == 0..MaxWindow

\* lines[start:end]: a negative index counts from the end, an index outside
\* the list is clamped.
SliceIndex(i, n) ==
    IF i < 0 THEN (IF i + n < 0 THEN 0 ELSE i + n)
             ELSE (IF i > n THEN n ELSE i)

Slice(lines, start, end) ==
    LET a == SliceIndex(start, Len(lines))
        b == SliceIndex(end, Len(lines))
    IN  IF a >= b THEN <<>> ELSE SubSeq(lines, a + 1, b)

\* '\n'.join(window).strip() is the empty string: every line of the window
\* is white space.
StripIsEmpty(window) == \A i \in 1..Len(window) : window[i] \in {"", " "}

WindowEndUnclamped(start, max_lines, n) == start + max_lines

\* end = min(start + max_lines_per_chunk, len(lines))
WindowEnd(start, max_lines, n) ==
    IF start + max_lines < n THEN start + max_lines ELSE n

CodeChunkOf(lines, start, end) ==
    [start_line |-> start + 1, end_line |-> end, content |-> Slice(lines, start, end)]

ChunksAfterWindowFirstLine(chunks, lines, start, end) ==
    IF StripIsEmpty(Slice(lines, start, start + 1))
    THEN chunks
    ELSE Append(chunks, CodeChunkOf(lines, start, end))

\* chunks after the body of the while loop ran for the window at start
ChunksAfterWindow(chunks, lines, start, end) ==
    IF StripIsEmpty(Slice(lines, start, end))
    THEN chunks
    ELSE Append(chunks, CodeChunkOf(lines, start, end))

ChunkInit ==
    /\ ck_pc = "idle"
    /\ ck_lines = <<>>
    /\ ck_max = 1
    /\ ck_overlap = 0
    /\ ck_start = 0
    /\ ck_chunks = <<>>
    /\ ck_iter = 0

ChunkFileCall(lines, max_lines, overlap) ==
    /\ ck_pc = "idle"
    /\ ck_pc' = "loop"
    /\ ck_lines' = lines
    /\ ck_max' = max_lines
    /\ ck_overlap' = overlap
    /\ ck_start' = 0
    /\ ck_chunks' = <<>>
    /\ ck_iter' = 0
    /\ OutsideChunk

\* while start < len(lines) is false
ChunkFileLoopEnds ==
    /\ ck_pc = "loop"
    /\ ~(ck_start < Len(ck_lines))
    /\ ck_pc' = "returned"
    /\ UNCHANGED <<ck_lines, ck_max, ck_overlap, ck_start, ck_chunks, ck_iter>>
    /\ OutsideChunk

\* one pass of the loop that ends in break
ChunkFileWindowBreaks ==
    /\ ck_pc = "loop"
    /\ ck_start < Len(ck_lines)
    /\ LET end == WindowEnd(ck_start, ck_max, Len(ck_lines))
       IN  /\ end = Len(ck_lines)
           /\ ck_chunks' = ChunksAfterWindow(ck_chunks, ck_lines, ck_start, end)
    /\ ck_pc' = "returned"
    /\ ck_iter' = ck_iter + 1
    /\ UNCHANGED <<ck_lines, ck_max, ck_overlap, ck_start>>
    /\ OutsideChunk

\* one pass of the loop that ends in start = end - overlap_lines
ChunkFileWindowAdvances ==
    /\ ck_pc = "loop"
    /\ ck_start < Len(ck_lines)
    /\ ck_iter < MaxIter
    /\ LET end == WindowEnd(ck_start, ck_max, Len(ck_lines))
       IN  /\ end # Len(ck_lines)
           /\ ck_chunks' = ChunksAfterWindow(ck_chunks, ck_lines, ck_start, end)
           /\ ck_start' = end - ck_overlap
    /\ ck_iter' = ck_iter + 1
    /\ UNCHANGED <<ck_pc, ck_lines, ck_max, ck_overlap>>
    /\ OutsideChunk

ChunkFileStep ==
    \/ ChunkFileLoopEnds
    \/ ChunkFileWindowBreaks
    \/ ChunkFileWindowAdvances

ChunkNext ==
    \/ \E lines \in FileLines, m \in WindowSizes, o \in Overlaps :
          ChunkFileCall(lines, m, o)
    \/ ChunkFileLoopEnds
    \/ ChunkFileWindowBreaks
    \/ ChunkFileWindowAdvances

Init ==
    /\ RetryInit /\ ReviewInit /\ StoreInit /\ QAInit /\ CallsInit /\ DiffInit
    /\ ChunkInit

SpecRetry == Init /\ [][RetryNext]_vars

SpecReview == Init /\ [][ReviewNext]_vars

SpecNodes == Init /\ [][NodesNext]_vars

SpecRun == Init /\ [][RunNext]_vars

SpecMetrics == Init /\ [][MetricsNext]_vars

SpecStore == Init /\ [][StoreNext]_vars

SpecQA == Init /\ [][QANext]_vars

SpecCalls == Init /\ [][CallsNext]_vars

SpecDiff == Init /\ [][DiffNext]_vars

SpecChunk == Init /\ [][ChunkNext]_vars

\* The interpreter keeps running a loop it has entered.
SpecChunkLive == SpecChunk /\ WF_vars(ChunkFileStep)

(***************************************************************************)
(* Properties of the retry wrapper                                         *)
(***************************************************************************)

\* What the specification calls a retriable condition: rate limiting, or an
\* HTTP error whose status is 429, 500, 502, 503 or 504.
SpecRetriable(e) ==
    \/ e.cls = "RateLimitError"
    \/ e.cls = "HTTPError" /\ e.status \in RetriableStatuses

RetryFinished == rt_pc \in {"returned", "raised"}

AllSpecRetriable(h) == \A i \in 1 .. Len(h) : SpecRetriable(h[i])

\* C1: with max_retries = n >= 1 and fn failing with retriable errors on its
\* first j calls and succeeding afterwards: if j < n the wrapper has called
\* fn j+1 times (sleeping after each failure) and returns fn's value; if
\* j >= n it has called fn exactly n times, slept n-1 times (not after the
\* n-th failure) and raises the very error of the n-th call. fn is never
\* called more than n times.
C1_RetryAttempts ==
    (rt_max >= 1 /\ rt_pc # "idle") =>
        /\ rt_calls <= rt_max
        /\ (RetryFinished /\ AllSpecRetriable(rt_hist)) =>
              LET j == Len(rt_hist) IN
              IF rt_pc = "returned"
                 THEN /\ j < rt_max
                      /\ rt_calls = j + 1
                      /\ rt_result = "value"
                      /\ Len(rt_sleeps) = j
                 ELSE /\ j = rt_max
                      /\ rt_calls = rt_max
                      /\ Len(rt_sleeps) = rt_max - 1
                      /\ rt_raised = rt_hist[rt_max]
                      /\ rt_raised.call = rt_max

\* C1 witness: two 503 failures, then success, with max_retries = 3: three
\* calls of fn and two sleeps.
C1_Witness ==
    /\ rt_max = 3
    /\ rt_pc = "returned"
    /\ rt_result = "value"
    /\ Len(rt_hist) = 2
    /\ \A i \in 1 .. 2 : rt_hist[i].cls = "HTTPError" /\ rt_hist[i].status = 503
    /\ rt_calls = 3
    /\ Len(rt_sleeps) = 2

\* C2: a failure that is neither rate limiting nor an HTTP error with status
\* 429/500/502/503/504 propagates on the first attempt: fn has been called
\* once, nothing was slept, and the wrapper has raised that error.
C2_NonRetriablePropagatesAtOnce ==
    (Len(rt_hist) >= 1 /\ ~SpecRetriable(rt_hist[1])) =>
        /\ rt_pc = "raised"
        /\ rt_calls = 1
        /\ rt_sleeps = <<>>
        /\ rt_raised = rt_hist[1]

\* C2, the part the code keeps: an error retry_on does not catch, and an
\* HTTPError with another status or with no response, propagate at once.
C2_UncaughtPropagatesAtOnce ==
    (Len(rt_hist) >= 1 /\ (~CaughtByRetryOn(rt_hist[1]) \/ NonRetriableHTTP(rt_hist[1]))) =>
        /\ rt_pc = "raised"
        /\ rt_calls = 1
        /\ rt_sleeps = <<>>
        /\ rt_raised = rt_hist[1]

\* C2: the state that breaks it: an openai.AuthenticationError (HTTP 401)
\* was retried.
C2_Witness ==
    /\ Len(rt_hist) >= 1
    /\ rt_hist[1].cls = "AuthenticationError"
    /\ rt_calls >= 2
    /\ Len(rt_sleeps) >= 1

(***************************************************************************)
(* Properties of the review pipeline                                       *)
(***************************************************************************)

\* C3: the parse stage never raises to its caller: whatever the raw model
\* output, once the stage has run on an error-free state it has produced a
\* summary text and a comment list, and no exception has left the graph.
C3_ParseStageNeverRaises ==
    (rv_pc \in {"END", "raised"} /\ Falsy(rv_error)) =>
        /\ rv_exc = "none"
        /\ rv_summary.t = "text"

\* C3: the state that breaks it: the model answered with JSON that is no
\* object (here a list, a number, a string, null or a bool) and the
\* AttributeError of data.get left the graph.
C3_Witness ==
    /\ rv_pc = "raised"
    /\ rv_exc = "AttributeError"
    /\ JsonLoads(rv_raw).ok
    /\ JsonLoads(rv_raw).val.t # "obj"

\* C3, the part the code keeps: an output that is no JSON, also after brace
\* extraction, gives the fallback summary quoting it and no comments.
C3_UnparsableDegrades ==
    (rv_pc \in {"END", "raised"} /\ Falsy(rv_error) /\ ~LoadData(RawOrEmpty(rv_raw)).ok) =>
        /\ rv_pc = "END"
        /\ rv_summary = FallbackText(RawOrEmpty(rv_raw))
        /\ rv_comments = <<>>

\* C4: a run that reaches the end of the pipeline is completed (error unset,
\* summary text set, comments the parsed list) or failed (error set, summary
\* unset, no comments), never both and never neither.
C4_TerminalStates ==
    rv_pc = "END" =>
        \/ /\ rv_error.t = "null"
           /\ rv_summary.t = "text"
           /\ rv_comments = ParseReviewOutput(RawOrEmpty(rv_raw), rv_pr).comments
        \/ /\ rv_error.t # "null"
           /\ ~Falsy(rv_error)
           /\ rv_summary.t = "null"
           /\ rv_comments = <<>>

\* C4 witness: a failed run at the end of the pipeline.
C4_Witness ==
    /\ rv_pc = "END"
    /\ rv_error = LLMFailed
    /\ rv_summary.t = "null"

\* A completed run with comments at the end of the pipeline.
C4_CompletedReached ==
    /\ rv_pc = "END"
    /\ rv_error.t = "null"
    /\ Len(rv_comments) = 2

(***************************************************************************)
(* Properties of the index, metadata and metrics stores                    *)
(***************************************************************************)

IsPrefix(s, t) == Len(s) <= Len(t) /\ SubSeq(t, 1, Len(s)) = s

\* Every document of the repository's collection was stored for this id.
OnlyOwnDocs(r) == \A i \in 1 .. Len(LoadIndex(r)) : LoadIndex(r)[i].repo_id = r

\* C7: build_index replaces wholesale: a build for a repository id, on a
\* collection that earlier builds for the same id left, leaves the
\* collection with exactly the documents of the chunks just given (so
\* building twice with the same chunks is building once).
C7_RebuildReplaces ==
    [][\A r \in StoreRepoIds : \A chunks \in ChunkLists(r) :
          (BuildIndex(r, chunks) /\ OnlyOwnDocs(r)) =>
              LoadIndex(r)' = DocsOf(chunks)]_vars

\* C7: the state that breaks it: the same chunk is in a collection twice.
C7_Witness ==
    \E r \in StoreRepoIds :
        /\ Len(LoadIndex(r)) = 2
        /\ LoadIndex(r)[1] = LoadIndex(r)[2]

\* C9: the metrics log is append-only: over every step the runs load_review_runs
\* returned before are a prefix of those it returns after; save_review_run
\* for a repository adds exactly one run, the last, to what load_review_runs
\* returns for it; load_review_runs changes no log and no other stored data
\* (it only makes sure the repository's metrics directory exists).
C9_LogAppendOnly ==
    [][\A r \in StoreRepoIds :
          LET before == ReviewRunsIn(fs_logs, r)
              after  == ReviewRunsIn(fs_logs', r)
          IN
          /\ IsPrefix(before, after)
          /\ (uuids' # uuids /\
                 \E pr \in PrChoices, sm \in SummaryChoices, cs \in CommentLists :
                     SaveReviewRun(r, pr, sm, cs)) =>
                 /\ Len(after) = Len(before) + 1
                 /\ after[Len(after)].repo_id = r
          /\ LoadReviewRunsCall(r) =>
                 /\ fs_logs' = fs_logs
                 /\ UNCHANGED <<fs_dirs, fs_coll, fs_meta, clock, uuids>>]_vars

\* C9 witness: a log that was appended to twice and then read.
C9_Witness ==
    \E r \in StoreRepoIds :
        /\ Len(LoadReviewRuns(r)) = 2
        /\ LoadReviewRuns(r)[1].id # LoadReviewRuns(r)[2].id
        /\ MetricsDirForRepo(r) \in fs_mdirs

\* What the load functions give for a repository id.
IndexSeen(r) == [found |-> ~LoadIndexRaisesNotFound(r), docs |-> LoadIndex(r)]
StoredSeen(r) ==
    [index |-> IndexSeen(r), meta |-> LoadIndexMetadata(r), runs |-> LoadReviewRuns(r)]

\* A step that is a writing store operation on repository id a.
WritesFor(a) ==
    \/ \E chunks \in ChunkLists(a) : BuildIndex(a, chunks)
    \/ BuildIndexFails(a)
    \/ SaveIndexMetadata(a, 1)
    \/ \E pr \in PrChoices, sm \in SummaryChoices, cs \in CommentLists :
          SaveReviewRun(a, pr, sm, cs)

\* C10: for distinct repository ids a and b, no operation on a changes what
\* load_index, load_index_metadata or load_review_runs give for b.
C10_RepositoriesIsolated ==
    [][\A a \in StoreRepoIds, b \in StoreRepoIds :
          (a # b /\ WritesFor(a)) => StoredSeen(b)' = StoredSeen(b)]_vars

\* C10: the ids that break it share their directories.
C10_Witness ==
    \E a \in StoreRepoIds, b \in StoreRepoIds :
        /\ a # b
        /\ RepoIndexPath(a) = RepoIndexPath(b)
        /\ MetaDir(a) = MetaDir(b)
        /\ MetricsDirForRepo(a) = MetricsDirForRepo(b)
        /\ Len(LoadIndex(a)) > 0
        /\ \A i \in 1 .. Len(LoadIndex(a)) : LoadIndex(a)[i].repo_id = b

(***************************************************************************)
(* Properties of Fetch & Index and the Code Q&A tab                        *)
(***************************************************************************)

\* The cosine similarity of a and b is at least 0.90 (0 when a norm is 0).
SpecSimilar(a, b) ==
    Dot(a, b) > 0 /\ 100 * Dot(a, b) * Dot(a, b) >= 81 * Dot(a, a) * Dot(b, b)

\* b is closer to q than a is, for a with a positive similarity to q.
SpecCloser(b, a, q) ==
    /\ Dot(b, q) > 0
    /\ Dot(b, q) * Dot(b, q) * Dot(a, a) > Dot(a, q) * Dot(a, q) * Dot(b, b)

\* The cache entries of the repository and of its current index version.
CurrentEntries(r) ==
    {i \in 1 .. Len(qa_cache) :
        /\ qa_cache[i].repo_id = r
        /\ qa_cache[i].index_version = IndexVersion(r)}

\* C5: an Ask whose question was embedded is answered from the cache iff
\* some entry of the same repository and current index version has cosine
\* similarity >= 0.90 to the question; the entry served is such an entry
\* (so an entry of another index version is never served), none of them is
\* closer to the question, and its answer and sources are what is shown.
C5_CacheServedIff ==
    [][(qa_last' # NoAsk /\ qa_last'.embedded) =>
          LET r      == qa_last'.repo_id
              q_emb  == EmbedQuery(qa_last'.question)
              served == qa_last'.via = "cache"
              best   == qa_last'.best
          IN
          /\ served <=> (\E i \in CurrentEntries(r) : SpecSimilar(q_emb, qa_cache[i].embedding))
          /\ served =>
                 /\ best \in CurrentEntries(r)
                 /\ SpecSimilar(q_emb, qa_cache[best].embedding)
                 /\ \A j \in CurrentEntries(r) :
                        ~SpecCloser(qa_cache[j].embedding, qa_cache[best].embedding, q_emb)
                 /\ qa_answer' = qa_cache[best].answer
                 /\ qa_sources' = qa_cache[best].sources]_vars

\* C5 witness: "q2" was answered from the entry of "q4", the second of two
\* current entries, the first being the entry of "q1" at exactly 0.90.
C5_Witness ==
    /\ qa_last.via = "cache"
    /\ qa_last.question = "q2"
    /\ qa_last.best = 2
    /\ CurrentEntries(qa_last.repo_id) = {1, 2}
    /\ qa_cache[1].question = "q1"
    /\ qa_cache[2].question = "q4"

\* C6: an answer is served from the cache only from an entry made since the
\* last indexing run that changed the repository's collection.
C6_NoEntryServedAfterReindex ==
    [][(qa_last' # NoAsk /\ qa_last'.via = "cache") =>
          h_gen[qa_last'.best] = h_builds[RepoIndexPath(qa_last'.repo_id)]]_vars

\* C6: the state that breaks it: the entry just served is older than the
\* last build that added documents to the repository's collection.
C6_Witness ==
    /\ qa_last.via = "cache"
    /\ h_gen[qa_last.best] < h_builds[RepoIndexPath(qa_last.repo_id)]

\* C8: a repository no build has stored a collection for is gated off:
\* load_index raises FileNotFoundError and ensure_index_exists is false.
C8_NoCollectionGatesOff ==
    \A r \in AppRepoIds :
        (h_builds[RepoIndexPath(r)] = 0 /\ Len(LoadIndex(r)) = 0) =>
            (LoadIndexRaisesNotFound(r) /\ ~EnsureIndexExists(r))

\* C8: the state that breaks it: no build succeeded for the repository and
\* an Ask for it was handled (and found nothing to retrieve).
C8_Witness ==
    /\ qa_last.repo_id \in AppRepoIds
    /\ h_builds[RepoIndexPath(qa_last.repo_id)] = 0
    /\ Len(LoadIndex(qa_last.repo_id)) = 0
    /\ EnsureIndexExists(qa_last.repo_id)
    /\ qa_last.via = "none"

(***************************************************************************)
(* Properties of the external calls                                        *)
(***************************************************************************)

\* C11: an external call whose request failed with transient errors only
\* (rate limit, HTTP 429/500/502/503/504) lets the failure out only after
\* DefaultMaxRetries attempts.
C11_ExternalCallsRetried ==
    (xc_pc = "raised" /\ AllSpecRetriable(xc_hist)) => Len(xc_hist) = DefaultMaxRetries

\* C11: the state that breaks it: list_pull_requests raised the first 503.
C11_Witness ==
    /\ xc_pc = "raised"
    /\ xc_op = "list_pull_requests"
    /\ Len(xc_hist) = 1
    /\ xc_raised.cls = "HTTPError"
    /\ xc_raised.status = 503

(***************************************************************************)
(* Properties of the comments the parse stage produces                     *)
(***************************************************************************)

\* The severities and categories the review prompt and ReviewComment name.
KnownSeverities == {"info", "warning", "critical"}
KnownCategories ==
    {"architecture", "security", "bug-risk", "performance", "readability", "testing"}

\* C12: every ReviewComment the parse stage produces has a severity among
\* info, warning, critical and a category among the six known ones.
C12_SeverityCategoryKnown ==
    \A i \in 1 .. Len(rv_comments) :
        /\ rv_comments[i].severity \in KnownSeverities
        /\ rv_comments[i].category \in KnownCategories

\* C12: the state that breaks it: the run completed with a comment whose
\* severity is the model's unknown word, or the text of None.
C12_Witness ==
    /\ rv_pc = "END"
    /\ \E i \in 1 .. Len(rv_comments) :
          /\ rv_comments[i].severity \in {"blocker", "none"}
          /\ rv_comments[i].category \notin KnownCategories

(***************************************************************************)
(* Properties of the diff chunks                                           *)
(***************************************************************************)

\* The chunks made for payload i of the call (by its file name).
ChunksFor(i) ==
    SelectSeq(df_chunks, LAMBDA ch : ch.file_path = df_files[i].filename)

\* C13: every DiffChunk returned has new_start <= new_end.
C13_StartNotAfterEnd ==
    \A k \in 1 .. Len(df_chunks) : df_chunks[k].new_start <= df_chunks[k].new_end

\* C13: the state that breaks it: the chunk of a removed file, whose hunk
\* header is "@@ -10,5 +0,0 @@".
C13_Witness ==
    \E k \in 1 .. Len(df_chunks) :
        /\ df_chunks[k].status = "removed"
        /\ df_chunks[k].hunk_header = HunkLine(0, 0, TRUE)
        /\ df_chunks[k].new_start = 0
        /\ df_chunks[k].new_end = 0 - 1

\* The patch has text and no "@@" line, or a first "@@" line that does not
\* parse.
Unparsable(shape) == shape.kind \in {"nohunk", "noplus", "badstart", "badlen"}

\* C14: a file whose patch has no "@@" line, or whose first "@@" line does
\* not parse, still gets its one DiffChunk, with the empty header and
\* new_start = new_end = 1.
C14_UnparsableGetsPlaceholder ==
    \A i \in 1 .. Len(df_files) :
        Unparsable(df_files[i].shape) =>
            /\ Len(ChunksFor(i)) = 1
            /\ ChunksFor(i)[1].hunk_header = <<>>
            /\ ChunksFor(i)[1].new_start = 1
            /\ ChunksFor(i)[1].new_end = 1

\* C14: the state that breaks it: the chunk of a "@@" line without a "+"
\* part carries that line as its header.
C14_Witness ==
    \E i \in 1 .. Len(df_files) :
        /\ df_files[i].shape.kind = "noplus"
        /\ Len(ChunksFor(i)) = 1
        /\ ChunksFor(i)[1].hunk_header = df_files[i].patch[1]
        /\ ChunksFor(i)[1].new_start = 1
        /\ ChunksFor(i)[1].new_end = 1

\* C15: a file whose patch starts with the hunk header "@@ -a[,b] +c[,d] @@"
\* gets new_start = c and new_end = c + d - 1, d being 1 when absent,
\* whatever follows the header on its line and in the patch.
C15_HeaderParsed ==
    \A i \in 1 .. Len(df_files) :
        df_files[i].shape.kind = "hunk" =>
            LET c == df_files[i].shape.c
                d == IF df_files[i].shape.hasD THEN df_files[i].shape.d ELSE 1
            IN /\ Len(ChunksFor(i)) = 1
               /\ ChunksFor(i)[1].new_start = c
               /\ ChunksFor(i)[1].new_end = c + d - 1

\* C15 witness: "@@ -10,5 +12,8 @@" followed by a second hunk gave (12, 19)
\* and "@@ -1 +1 @@" gave (1, 1), in one call.
C15_Witness ==
    /\ Len(df_files) = 2
    /\ df_files[1].shape = [kind |-> "hunk", c |-> 12, d |-> 8, hasD |-> TRUE, more |-> "again"]
    /\ df_files[2].patch[1] = <<"@", "@", " ", "-", "1", " ", "+", "1", " ", "@", "@">>
    /\ Len(df_chunks) = 2
    /\ df_chunks[1].new_start = 12 /\ df_chunks[1].new_end = 19
    /\ df_chunks[2].new_start = 1 /\ df_chunks[2].new_end = 1

(***************************************************************************)
(* Properties of chunk_file                                                *)
(***************************************************************************)
\* C16: every chunk of a call that returned has 1 <= start_line <= end_line
\* <= the number of lines of the file, at most max_lines_per_chunk lines,
\* and content that is not empty after strip().
C16_ChunkBounds ==
    ck_pc = "returned" =>
        \A i \in 1..Len(ck_chunks) :
            LET c == ck_chunks[i]
            IN  /\ 1 <= c.start_line
                /\ c.start_line <= c.end_line
                /\ c.end_line <= Len(ck_lines)
                /\ c.end_line - c.start_line + 1 <= ck_max
                /\ Len(c.content) = c.end_line - c.start_line + 1
                /\ ~StripIsEmpty(c.content)

C16_Witness ==
    /\ ck_pc = "returned"
    /\ Len(ck_chunks) >= 3
    /\ ck_overlap = 1
    /\ ck_chunks[Len(ck_chunks)].end_line = Len(ck_lines)
    /\ \E i \in 1..Len(ck_lines) : ck_lines[i] = ""

\* C17: in the chunks of a call that returned, each chunk but the final one
\* starts overlap_lines lines before the end of the chunk ahead of it:
\* next.start_line = previous.end_line - overlap_lines + 1.
C17_ConsecutiveOverlap ==
    ck_pc = "returned" =>
        \A i \in 1..(Len(ck_chunks) - 2) :
            ck_chunks[i + 1].start_line = ck_chunks[i].end_line - ck_overlap + 1

C17_Witness ==
    /\ ck_pc = "returned"
    /\ Len(ck_chunks) >= 3
    /\ \E i \in 1..(Len(ck_chunks) - 2) :
          ck_chunks[i + 1].start_line > ck_chunks[i].end_line + 1

\* C18: every pass of the loop that does not break moves start forward, by
\* max_lines_per_chunk - overlap_lines, so that the window reaches the end
\* of the file and the call returns.
C18_StartAdvances ==
    [][(ck_pc = "loop" /\ ck_pc' = "loop" /\ ck_iter' = ck_iter + 1) =>
           /\ ck_start' = ck_start + ck_max - ck_overlap
           /\ ck_start' > ck_start]_vars

\* The same as a liveness property: a call that entered its loop returns.
C18_Terminates == (ck_pc = "loop") ~> (ck_pc = "returned")

\* The cut at MaxIter passes only stops calls whose start does not advance.
C18_CutOnlyWhenNotAdvancing ==
    (ck_pc = "loop" /\ ck_iter = MaxIter) => ck_overlap >= ck_max

C18_Witness ==
    /\ ck_pc = "loop"
    /\ ck_iter > Len(ck_lines)
    /\ ck_overlap = ck_max
    /\ ck_start = 0

(***************************************************************************)
(* Properties of the run records' counts                                   *)
(***************************************************************************)
\* sum(d.values())
RECURSIVE SumValues(_)
SumValues(d) ==
    IF DOMAIN d = {} THEN 0
    ELSE LET k == CHOOSE x \in DOMAIN d : TRUE
         IN  d[k] + SumValues([x \in DOMAIN d \ {k} |-> d[x]])

RunCountsAgree(run) ==
    /\ SumValues(run.stats.by_severity) = run.comment_count
    /\ SumValues(run.stats.by_category) = run.comment_count

\* C19: the run that save_review_run(repo_id, ..., comments) adds to what
\* load_review_runs(repo_id) returns has comment_count = len(comments), and
\* in every run load_review_runs returns the values of stats.by_severity
\* and those of stats.by_category each sum to comment_count.
C19_StatsSumToCount ==
    [][\A r \in StoreRepoIds :
          LET after == ReviewRunsIn(fs_logs', r) IN
          /\ \A i \in 1..Len(after) : RunCountsAgree(after[i])
          /\ \A pr \in PrChoices, sm \in SummaryChoices, cs \in CommentLists :
                SaveReviewRun(r, pr, sm, cs) =>
                    after[Len(after)].comment_count = Len(cs)]_vars

\* C19 witness: a loaded run of three comments, two of them with the same
\* severity outside the prompt's list, next to a run without comments.
C19_Witness ==
    \E r \in StoreRepoIds :
        LET runs == LoadReviewRuns(r) IN
        /\ Len(runs) = 2
        /\ runs[1].comment_count = 0
        /\ runs[2].comment_count = 3
        /\ runs[2].stats.by_severity["blocker"] = 2
        /\ MetricsDirForRepo(r) \in fs_mdirs

(***************************************************************************)
(* Properties of a question whose embedding failed                         *)
(***************************************************************************)
\* C20: an Ask click whose embed_query call raised is not answered from the
\* cache, goes on to retrieval, and leaves the cache as it was: no entry is
\* read and none is appended.
C20_EmbedFailureDisablesCache ==
    [][(qa_last' # NoAsk /\ ~qa_last'.embedded) =>
           /\ qa_last'.via \in {"rag", "none", "failed"}
           /\ qa_cache' = qa_cache]_vars

\* The part of C20 that is about reading: such a click is never answered
\* from the cache.
C20_EmbedFailureSkipsLookup ==
    [][(qa_last' # NoAsk /\ ~qa_last'.embedded) =>
           qa_last'.via \in {"rag", "none", "failed"}]_vars

\* C20 witness: the only question asked so far had its embedding fail, was
\* answered by retrieval, and is in the cache.
C20_Witness ==
    /\ qa_last # NoAsk
    /\ ~qa_last.embedded
    /\ qa_last.via = "rag"
    /\ h_clicks = 2
    /\ Len(qa_cache) = 1
    /\ qa_cache[1].question = qa_last.question

(***************************************************************************)
(* Properties of the backoff sleeps                                        *)
(***************************************************************************)
RECURSIVE Pow2(_)
Pow2(n) == IF n = 0 THEN 1 ELSE 2 * Pow2(n - 1)

\* The k-th sleep is base_delay * 2^(k-1) plus a draw from [0, jitter)
\* (plus 0 when jitter is 0).
SleepsFollowBackoff ==
    \A k \in 1..Len(rt_sleeps) :
        LET d == rt_sleeps[k] - rt_base * Pow2(k - 1)
        IN  /\ d >= 0
            /\ (d < rt_jitter \/ (rt_jitter = 0 /\ d = 0))

SleepsNonDecreasing ==
    \A k \in 1..(Len(rt_sleeps) - 1) : rt_sleeps[k] <= rt_sleeps[k + 1]

\* C21 as stated: the k-th sleep is base_delay * 2^(k-1) plus a jitter draw
\* and the sleeps of one call never decrease, whatever base_delay > 0,
\* jitter >= 0 and the draws.
C21_SleepsNonDecreasing == SleepsFollowBackoff /\ SleepsNonDecreasing

\* C21 amended: the k-th sleep is base_delay * 2^(k-1) plus a jitter draw,
\* and the sleeps of one call never decrease when jitter <= base_delay.
C21_SleepsBackoff ==
    /\ SleepsFollowBackoff
    /\ (rt_jitter <= rt_base => SleepsNonDecreasing)

\* C21 witness: two sleeps with base_delay 4 and jitter 3, the first with
\* the largest draw and the second with the smallest.
C21_Witness ==
    /\ rt_base = 4
    /\ rt_jitter = 3
    /\ rt_sleeps = <<6, 8>>

(***************************************************************************)
(* Properties of the comments' line numbers                                *)
(***************************************************************************)
\* C22: every ReviewComment the parse stage produces has line >= 1,
\* whatever the model gave as line.
C22_LineAtLeastOne ==
    \A i \in 1 .. Len(rv_comments) : rv_comments[i].line >= 1

\* C22: the state that breaks it: the run completed with the comment the
\* model gave line -3 for, next to one whose line was null and was skipped.
C22_Witness ==
    /\ rv_pc = "END"
    /\ Len(rv_comments) = 2
    /\ rv_comments[1].line = 0 - 3
    /\ rv_comments[2].line = 2

(***************************************************************************)
(* Properties of the graph's stages                                        *)
(***************************************************************************)
Stages == {"gather_context", "call_llm", "parse_output"}

\* C23: a stage entered with the error flag set passes the state through:
\* it makes no retrieve_chunks and no llm.invoke call and leaves error, the
\* raw model output, the summary and the comments as they are.
C23_ErrorPassesThrough ==
    [][(rv_pc \in Stages /\ ~Falsy(rv_error)) =>
           UNCHANGED <<rv_error, rv_raw, rv_summary, rv_comments, rv_ctx,
                       rv_requests, rv_queries>>]_vars

\* C23 amended: the parse stage entered with the error flag set passes the
\* state through (no call, nothing overwritten); the other two stages are
\* entered with the flag set only when the caller of the graph gave a state
\* with the flag set, which app.py never does.
C23_ParsePassesThrough ==
    [][/\ (rv_pc = "parse_output" /\ ~Falsy(rv_error)) =>
              UNCHANGED <<rv_error, rv_raw, rv_summary, rv_comments, rv_ctx,
                          rv_requests, rv_queries>>
       /\ (rv_pc \in {"gather_context", "call_llm"} /\ ~Falsy(rv_error)) =>
              ~Falsy(rv_given)]_vars

\* C23 witness: a run app.py started, the model call failed, and the parse
\* stage ran and left the error, the empty raw output, the summary and the
\* comments as call_llm_node set them.
C23_Witness ==
    /\ rv_given = JNull
    /\ rv_trace = <<"gather_context", "call_llm", "parse_output">>
    /\ rv_pc = "END"
    /\ rv_error = LLMFailed
    /\ rv_raw = EmptyText
    /\ rv_summary = JNull
    /\ rv_comments = <<>>
    /\ rv_requests = 1

\* The state that breaks C23 as stated: call_llm_node was entered with the
\* error the caller gave, called the model, and the error is gone.
C23_CallLLMOverwrites ==
    /\ ~Falsy(rv_given)
    /\ rv_trace = <<"gather_context", "call_llm">>
    /\ rv_queries = <<>>
    /\ rv_requests = 1
    /\ rv_error = JNull
    /\ rv_raw # JNull

\* The stages in the order of the graph's edges.
StageOrder == <<"gather_context", "call_llm", "parse_output">>

\* The stages of a run are run once each, in the order of the edges, and the
\* model is called once, by call_llm.
StagesOnceInOrder ==
    /\ IsPrefix(rv_trace, StageOrder)
    /\ rv_requests = (IF Len(rv_trace) >= 2 THEN 1 ELSE 0)
    /\ (rv_pc \in Stages => rv_pc = StageOrder[Len(rv_trace) + 1])

\* C24: a review run executes gather_context, call_llm and parse_output once
\* each in that order, sends one chat request whatever the number of diff
\* chunks, and once its three stages ran it is at END.
C24_LinearRunReachesEnd ==
    /\ StagesOnceInOrder
    /\ (Len(rv_trace) = 3 => rv_pc = "END")

\* The part of C24 that is about the order and the single chat request.
C24_StagesOnceInOrder == StagesOnceInOrder

\* C24: the state that breaks it: a run without diff chunks ran its three
\* stages, made its one chat request, and left graph.invoke by an exception.
C24_Witness ==
    /\ rv_diffs = <<>>
    /\ rv_trace = StageOrder
    /\ rv_requests = 1
    /\ rv_pc = "raised"
    /\ rv_exc # "none"

(***************************************************************************)
(* Properties of the gather stage                                          *)
(***************************************************************************)
\* The file paths whose retrieval returned results.
PathsWithResults ==
    {rv_queries[i].file_path : i \in {j \in 1 .. Len(rv_queries) : rv_queries[j].results > 0}}

\* C25: in a run app.py started, once gather_context ran there was one
\* retrieve_chunks call with k = 2 for each DiffChunk, in order; whichever of
\* them raised or returned nothing, error is unset, the context has entries
\* for exactly the file paths whose retrieval returned results, the next
\* stage is call_llm, and once that ran the model was called.
C25_GatherSwallowsFailures ==
    Len(rv_trace) >= 1 =>
        /\ Len(rv_queries) = Len(rv_diffs)
        /\ \A i \in 1 .. Len(rv_queries) :
              /\ rv_queries[i].file_path = rv_diffs[i]
              /\ rv_queries[i].k = 2
        /\ DOMAIN rv_ctx = PathsWithResults
        /\ \A p \in DOMAIN rv_ctx : Len(rv_ctx[p]) \in 1 .. 2
        /\ (Len(rv_trace) = 1 => rv_error = JNull /\ rv_pc = "call_llm" /\ rv_exc = "none")
        /\ (Len(rv_trace) >= 2 => rv_requests = 1)

\* C25 witness: two diff chunks, the retrieval for the first raised and the
\* one for the second returned two results, and the model was called.
C25_Witness ==
    /\ Len(rv_queries) = 2
    /\ rv_queries[1].raised
    /\ rv_queries[2].results = 2
    /\ DOMAIN rv_ctx = {"b.py"}
    /\ rv_requests = 1
    /\ rv_error = JNull
    /\ rv_pc = "parse_output"

(***************************************************************************)
(* Properties of the cache as a list                                       *)
(***************************************************************************)
\* C26: every step of the session leaves the cache as it was or appends one
\* entry to it; an entry is appended only by an Ask that was not answered
\* from the cache and got its answer from the model, and the entry holds
\* that question and answer; an Ask answered from the cache, one whose
\* retrieval was empty or all at distance >= 2, and one whose model call
\* failed leave the cache as it was.
C26_CacheOnlyAppended ==
    [][/\ IsPrefix(qa_cache, qa_cache')
       /\ Len(qa_cache') <= Len(qa_cache) + 1
       /\ qa_cache' # qa_cache =>
              /\ qa_last' # NoAsk
              /\ qa_last'.via = "rag"
              /\ qa_cache'[Len(qa_cache')].repo_id = qa_last'.repo_id
              /\ qa_cache'[Len(qa_cache')].question = qa_last'.question
              /\ <<qa_cache'[Len(qa_cache')].answer>> = <<qa_answer'>>
       /\ (qa_last' # NoAsk /\ qa_last'.via \in {"cache", "none", "failed"}) =>
              qa_cache' = qa_cache]_vars

\* C26 witness: two entries in the cache, and the last click was an Ask
\* whose model call failed.
C26_Witness ==
    /\ Len(qa_cache) = 2
    /\ qa_last.via = "failed"
    /\ qa_last.embedded

(***************************************************************************)
(* Properties of Run AI Review                                             *)
(***************************************************************************)
\* All the runs load_review_runs returns, over the application's
\* repositories, counted.
RECURSIVE RunsLogged(_, _)
RunsLogged(logs, rs) ==
    IF rs = {} THEN 0
    ELSE LET r == CHOOSE x \in rs : TRUE
         IN  Len(ReviewRunsIn(logs, r)) + RunsLogged(logs, rs \ {r})

\* C27: a review run whose graph ended with error set is followed by no
\* write to the metrics log; one that ended without error is followed by
\* one save that adds exactly one run to what load_review_runs returns for
\* the repository, with comment_count the number of the run's comments;
\* no other step of a run writes to the log.
C27_OneRecordPerCompletedRun ==
    [][/\ (rv_pc = "END" /\ ~Falsy(rv_error)) =>
              /\ rv_pc' = "failed"
              /\ fs_logs' = fs_logs
       /\ (rv_pc = "END" /\ Falsy(rv_error)) =>
              /\ rv_pc' = "saved"
              /\ RunsLogged(fs_logs', AppRepoIds) = RunsLogged(fs_logs, AppRepoIds) + 1
              /\ \E r \in AppRepoIds :
                    LET after == ReviewRunsIn(fs_logs', r) IN
                    /\ Len(after) = Len(ReviewRunsIn(fs_logs, r)) + 1
                    /\ after[Len(after)].comment_count = Len(rv_comments)
                    /\ after[Len(after)].pr_number = rv_pr
       /\ rv_pc # "END" => fs_logs' = fs_logs]_vars

\* C27 witness: the model's answer was no JSON, the run ended with the
\* fallback summary and no comments, and one record with comment_count 0 is
\* in the log.
C27_Witness ==
    /\ rv_pc = "saved"
    /\ rv_summary.form = "not valid JSON"
    /\ rv_comments = <<>>
    /\ RunsLogged(fs_logs, AppRepoIds) = 1
    /\ \E r \in AppRepoIds :
          /\ Len(LoadReviewRuns(r)) = 1
          /\ LoadReviewRuns(r)[1].comment_count = 0

\* A failed run that wrote nothing.
C27_FailedReached ==
    /\ rv_pc = "failed"
    /\ RunsLogged(fs_logs, AppRepoIds) = 0

(***************************************************************************)
(* Properties of the index metadata                                        *)
(***************************************************************************)
\* The time an indexed_at text stands for.
TimeOf(text) == CHOOSE t \in 0 .. 9 : ToString(t) = text

\* C28: in every step of the session, for every repository: meta.json is
\* written only in a Fetch & Index whose build_index returned (the step adds
\* a build to the repository's index); the file holds at most one record,
\* under the repository's own id; and when it held a record before and
\* holds one after, indexed_at has not gone back.
C28_MetadataAfterBuild ==
    [][\A r \in AppRepoIds :
          LET d == MetaDir(r) IN
          /\ fs_meta'[d] # fs_meta[d] =>
                 h_builds'[RepoIndexPath(r)] = h_builds[RepoIndexPath(r)] + 1
          /\ Len(fs_meta'[d]) <= 1
          /\ fs_meta'[d] # <<>> => fs_meta'[d][1].repo_id = r
          /\ (fs_meta[d] # <<>> /\ fs_meta'[d] # <<>>) =>
                 TimeOf(fs_meta'[d][1].indexed_at) >= TimeOf(fs_meta[d][1].indexed_at)]_vars

\* C28 witness: a repository indexed twice, its record from the second
\* Fetch & Index.
C28_Witness ==
    \E r \in AppRepoIds :
        /\ h_builds[RepoIndexPath(r)] = 2
        /\ fs_meta[MetaDir(r)] # <<>>
        /\ TimeOf(fs_meta[MetaDir(r)][1].indexed_at) = 1
        /\ fs_meta[MetaDir(r)][1].repo_id = r

(***************************************************************************)
(* Properties of the wrapper for every max_retries                         *)
(***************************************************************************)
\* C29: whatever max_retries is, a finished call through the wrapper has
\* called fn at least once and either returns what fn returned or raises
\* the error of fn's last call.
C29_CalledAtLeastOnce ==
    RetryFinished =>
        /\ rt_calls >= 1
        /\ rt_pc = "returned" => rt_result = "value"
        /\ rt_pc = "raised" =>
               /\ Len(rt_hist) >= 1
               /\ rt_raised = rt_hist[Len(rt_hist)]

\* C29: the state that breaks it: with max_retries = 0 the wrapper returned
\* None and fn was never called.
C29_Witness ==
    /\ rt_max = 0
    /\ rt_pc = "returned"
    /\ rt_result = "None"
    /\ rt_calls = 0
    /\ rt_hist = <<>>

(***************************************************************************)
(* Coverage of a file by its chunks                                        *)
(***************************************************************************)
\* a line of the file lies within [start_line, end_line] of some chunk
LineCovered(i) ==
    \E j \in 1..Len(ck_chunks) :
        ck_chunks[j].start_line <= i /\ i <= ck_chunks[j].end_line

\* C30: when 0 <= overlap_lines < max_lines_per_chunk the loop is never cut
\* short, and the chunks of a call that returned have strictly increasing
\* start_line, every line with a character that is not white space lies in
\* a chunk, and the last window of the loop ends at the final line of the
\* file.
C30_ChunksCoverFile ==
    (ck_pc # "idle" /\ ck_overlap < ck_max) =>
        /\ ck_iter <= Len(ck_lines)
        /\ ck_pc = "returned" =>
               /\ \A j \in 1..(Len(ck_chunks) - 1) :
                      ck_chunks[j].start_line < ck_chunks[j + 1].start_line
               /\ \A i \in 1..Len(ck_lines) :
                      ck_lines[i] = "x" => LineCovered(i)
               /\ Len(ck_lines) > 0 =>
                      /\ ck_iter >= 1
                      /\ ck_start < Len(ck_lines)
                      /\ ck_start + ck_max >= Len(ck_lines)

\* C30: a call with overlap that returned two or more chunks, dropped a
\* window of blank lines, and whose file has a blank line outside every
\* chunk.
C30_Witness ==
    /\ ck_pc = "returned"
    /\ ck_overlap >= 1
    /\ ck_overlap < ck_max
    /\ Len(ck_chunks) >= 2
    /\ ck_iter > Len(ck_chunks)
    /\ \E i \in 1..Len(ck_lines) : ck_lines[i] = "x"
    /\ ck_start + ck_max >= Len(ck_lines)

====
